---- MODULE Spec2Model ----
(***************************************************************************)
(* Verification model of the matsimu simulation core: the Simulation       *)
(* orchestrator with its three modes (MD, 1D heat, 2D heat), the pairwise  *)
(* force evaluators (ForceField, NeighborList, NeighborForceField) and the *)
(* bounded_allocator.                                                      *)
(*                                                                         *)
(* Real numbers are held as integer multiples of one quantum; a finite     *)
(* Real lies in -RealMax..RealMax and anything larger is Inf, so that the  *)
(* overflow of an accumulated time is representable.  Temperatures are     *)
(* counted in a quantum of their own and stay far from overflow.  Vectors  *)
(* have two components (x, y); the third axis of the source is held at     *)
(* zero.                                                                   *)
(***************************************************************************)
EXTENDS Integers, Sequences, FiniteSets, TLC

(***************************************************************************)
(* Bounds of the model                                                     *)
(***************************************************************************)
MaxSteps == 3
RealMax == 9
MaxCoord == 3
UnitLength == 4
\* width of std::size_t in bits
SizeBits == 4
\* sizeof(T) of the allocator's element type
SizeofT == 4
\* largest element count a caller requests
MaxCount == 5
\* blocks a caller holds at once
MaxBlocks == 3

Inf == RealMax + 1
NegInf == 0 - Inf

IsFinite(x) == x # Inf /\ x # NegInf

\* Real addition: the sum of two finite values overflows to +-Inf.
RAdd(a, b) ==
  IF a = Inf \/ b = Inf THEN Inf
  ELSE IF a = NegInf \/ b = NegInf THEN NegInf
  ELSE IF a + b > RealMax THEN Inf
  ELSE IF a + b < 0 - RealMax THEN NegInf
  ELSE a + b

Abs(x) == IF x < 0 THEN 0 - x ELSE x

\* A local variable: e is computed once and F reads the stored value.
Let(e, F(_)) == CHOOSE y \in {F(x) : x \in {e}} : TRUE

\* A std::vector held by value: every element is stored, none is recomputed.
Vec(f) == f \o <<>>

(***************************************************************************)
(* Lattice: basis vectors a1 = lat[1], a2 = lat[2] in the x-y plane, a3 the *)
(* unit vector along z.  A fractional coordinate is held exactly, as its   *)
(* numerator over FracDen(lat) = |volume|.                                 *)
(***************************************************************************)
VolEps == 3

\* Lattice::volume: a1 . (a2 x a3) with a3 = (0, 0, 1)
Volume(lat) == lat[1][1] * lat[2][2] - lat[1][2] * lat[2][1]

FracDen(lat) == IF Abs(Volume(lat)) < VolEps THEN 1 ELSE Abs(Volume(lat))

\* a default-constructed Lattice: the unit cell, UnitLength quanta per 1.0
DefaultLattice == <<<<UnitLength, 0>>, <<0, UnitLength>>>>

\* Lattice::cartesian_to_fractional (Cramer's rule; zeros for a degenerate cell)
cartesian_to_fractional(lat, cart) ==
  IF Abs(Volume(lat)) < VolEps THEN <<0, 0>>
  ELSE IF Volume(lat) > 0
  THEN <<lat[2][2] * cart[1] - lat[2][1] * cart[2], lat[1][1] * cart[2] - lat[1][2] * cart[1]>>
  ELSE <<lat[2][1] * cart[2] - lat[2][2] * cart[1], lat[1][2] * cart[1] - lat[1][1] * cart[2]>>

\* Lattice::fractional_to_cartesian: frac[0] * a1 + frac[1] * a2
fractional_to_cartesian(lat, frac) ==
  <<(frac[1] * lat[1][1] + frac[2] * lat[2][1]) \div FracDen(lat),
    (frac[1] * lat[1][2] + frac[2] * lat[2][2]) \div FracDen(lat)>>

\* The magnitude, in units of 1.0, from which a Real is too coarse to hold
\* x - 1.0 or x + 1.0: the sum rounds back to x (2^53 + 4 for a double).
AbsorbMin == 64

\* frac[i] -= 1.0 on a numerator over L, rounded to the nearest Real
frac_minus_one(f, L) == IF Abs(f) >= AbsorbMin * L THEN f ELSE f - L

\* frac[i] += 1.0 on a numerator over L, rounded to the nearest Real
frac_plus_one(f, L) == IF Abs(f) >= AbsorbMin * L THEN f ELSE f + L

\* the two while loops of min_image_frac on a numerator over L, for the
\* inputs on which they end
RECURSIVE MinImage1(_, _)
MinImage1(f, L) ==
  IF 2 * f >= L THEN MinImage1(frac_minus_one(f, L), L)
  ELSE IF 2 * f < 0 - L THEN MinImage1(frac_plus_one(f, L), L)
  ELSE f

\* Lattice::min_image_frac
min_image_frac(lat, frac) ==
  <<MinImage1(frac[1], FracDen(lat)), MinImage1(frac[2], FracDen(lat))>>

\* Lattice::min_image_displacement
min_image_displacement(lat, r1, r2) ==
  Let(cartesian_to_fractional(lat, <<r2[1] - r1[1], r2[2] - r1[2]>>), LAMBDA frac :
    Let(min_image_frac(lat, frac), LAMBDA wrapped : fractional_to_cartesian(lat, wrapped)))

\* frac - floor(frac) on a numerator over L
Floor1(f, L) == f % L

\* Lattice::wrap_cartesian
wrap_cartesian(lat, cart) ==
  Let(cartesian_to_fractional(lat, cart), LAMBDA frac :
    fractional_to_cartesian(lat, <<Floor1(frac[1], FracDen(lat)), Floor1(frac[2], FracDen(lat))>>))

\* frac - std::round(frac), round half away from zero, on a numerator over L
Round1(f, L) ==
  IF 2 * (f % L) < L THEN f % L
  ELSE IF 2 * (f % L) > L THEN (f % L) - L
  ELSE IF f > 0 THEN 0 - (f % L) ELSE f % L

(***************************************************************************)
(* Particles and potentials                                                *)
(***************************************************************************)
NoLattice == <<>>
NullPotential == [null |-> TRUE, cutoff |-> 0]

MakePotential(c) == [null |-> FALSE, cutoff |-> c]

cutoff_squared(pot) == pot.cutoff * pot.cutoff

energy(pot, r2) == IF r2 >= cutoff_squared(pot) THEN 0 ELSE cutoff_squared(pot) - r2

force_div_r(pot, r2) == IF r2 >= cutoff_squared(pot) THEN 0 ELSE r2 - cutoff_squared(pot)

MakeParticle(p, v) == [pos |-> p, vel |-> v, force |-> <<0, 0>>]

clear_forces(sys) == Vec([i \in DOMAIN sys |-> [sys[i] EXCEPT !.force = <<0, 0>>]])

\* ForceField::distance_squared / NeighborList::distance_sq: the displacement
distance_dx(p1, p2, lat) ==
  IF lat # NoLattice THEN min_image_displacement(lat, p1.pos, p2.pos)
  ELSE <<p2.pos[1] - p1.pos[1], p2.pos[2] - p1.pos[2]>>

distance_sq(p1, p2, lat) ==
  Let(distance_dx(p1, p2, lat), LAMBDA dx : dx[1] * dx[1] + dx[2] * dx[2])

\* The body of the pair loop: the force that pair (i, j) adds to particle k.
PairForce(sys, lat, pot, i, j, k) ==
  IF k # i /\ k # j THEN <<0, 0>>
  ELSE Let(distance_dx(sys[i], sys[j], lat), LAMBDA dx :
       Let(dx[1] * dx[1] + dx[2] * dx[2], LAMBDA r2 :
       Let(force_div_r(pot, r2), LAMBDA f :
         IF r2 < cutoff_squared(pot) /\ k = i THEN <<f * dx[1], f * dx[2]>>
         ELSE IF r2 < cutoff_squared(pot) /\ k = j THEN <<0 - f * dx[1], 0 - f * dx[2]>>
         ELSE <<0, 0>>)))

PairEnergy(sys, lat, pot, i, j) ==
  Let(distance_sq(sys[i], sys[j], lat), LAMBDA r2 :
    IF r2 < cutoff_squared(pot) THEN energy(pot, r2) ELSE 0)

\* Component d of the force the first n pairs of the sequence add to particle k.
RECURSIVE SumForce(_, _, _, _, _, _, _)
SumForce(sys, lat, pot, pairs, n, k, d) ==
  IF n = 0 THEN 0
  ELSE PairForce(sys, lat, pot, pairs[n][1], pairs[n][2], k)[d]
       + SumForce(sys, lat, pot, pairs, n - 1, k, d)

RECURSIVE SumEnergy(_, _, _, _, _)
SumEnergy(sys, lat, pot, pairs, n) ==
  IF n = 0 THEN 0
  ELSE PairEnergy(sys, lat, pot, pairs[n][1], pairs[n][2])
       + SumEnergy(sys, lat, pot, pairs, n - 1)

\* Accumulate the visited pairs into a cleared system; result [sys, epot].
AccumulatePairs(sys, lat, pot, pairs) ==
  [sys  |-> Vec([k \in DOMAIN sys |->
                  [sys[k] EXCEPT !.force = <<SumForce(sys, lat, pot, pairs, Len(pairs), k, 1),
                                             SumForce(sys, lat, pot, pairs, Len(pairs), k, 2)>>]]),
   epot |-> SumEnergy(sys, lat, pot, pairs, Len(pairs))]

\* The pairs the double loop i < j visits, in loop order.
RECURSIVE PairsFrom(_, _, _)
PairsFrom(n, i, j) ==
  IF i >= n THEN <<>>
  ELSE IF j > n THEN PairsFrom(n, i + 1, i + 2)
  ELSE <<<<i, j>>>> \o PairsFrom(n, i, j + 1)

AllPairs(n) == PairsFrom(n, 1, 2)

\* ForceField::compute_forces
ForceField_compute_forces(pot, sys, lat) ==
  IF pot.null THEN [sys |-> sys, epot |-> 0]
  ELSE Let(AllPairs(Len(sys)), LAMBDA pairs : AccumulatePairs(sys, lat, pot, pairs))

(***************************************************************************)
(* NeighborList / NeighborForceField                                       *)
(***************************************************************************)
RECURSIVE SortedSeq(_)
SortedSeq(S) ==
  IF S = {} THEN <<>>
  ELSE LET m == CHOOSE x \in S : \A y \in S : x <= y
       IN <<m>> \o SortedSeq(S \ {m})

\* NeighborList::NeighborList + set_cutoff
MakeNeighborList(cutoff, skin) ==
  [cutoff_ |-> cutoff, skin_ |-> skin, neighbors_ |-> <<>>, last_positions_ |-> <<>>]

nl_cutoff_sq(nl) == (nl.cutoff_ + nl.skin_) * (nl.cutoff_ + nl.skin_)

\* dr2 > skin_half_sq_, with skin_half_sq_ = (skin/2)^2, compared exactly
exceeds_half_skin(nl, dr2) == 4 * dr2 > nl.skin_ * nl.skin_

\* NeighborList::build
build(nl, sys, lat) ==
  [nl EXCEPT
     !.last_positions_ = Vec([i \in DOMAIN sys |-> sys[i].pos]),
     !.neighbors_ = Vec([i \in DOMAIN sys |->
        SortedSeq({j \in DOMAIN sys : j > i /\ distance_sq(sys[i], sys[j], lat) < nl_cutoff_sq(nl)})])]

drift_sq(nl, sys, lat, i) ==
  Let(<<sys[i].pos[1] - nl.last_positions_[i][1], sys[i].pos[2] - nl.last_positions_[i][2]>>,
      LAMBDA raw :
        Let(IF lat # NoLattice
            THEN Let(cartesian_to_fractional(lat, raw), LAMBDA frac :
                   fractional_to_cartesian(lat, <<Round1(frac[1], FracDen(lat)),
                                                  Round1(frac[2], FracDen(lat))>>))
            ELSE raw,
            LAMBDA dx : dx[1] * dx[1] + dx[2] * dx[2]))

\* Variant: needs_rebuild without the size test.
needs_rebuild_no_size_test(nl, sys, lat) ==
  \E i \in DOMAIN sys \cap DOMAIN nl.last_positions_ :
     exceeds_half_skin(nl, drift_sq(nl, sys, lat, i))

\* NeighborList::needs_rebuild
needs_rebuild(nl, sys, lat) ==
  IF Len(sys) # Len(nl.last_positions_) THEN TRUE
  ELSE \E i \in DOMAIN sys : exceeds_half_skin(nl, drift_sq(nl, sys, lat, i))

\* NeighborList::clear
NeighborList_clear(nl) == [nl EXCEPT !.neighbors_ = <<>>, !.last_positions_ = <<>>]

MakeNeighborForceField(pot, cutoff, skin) ==
  [set |-> TRUE, potential_ |-> pot, nlist_ |-> MakeNeighborList(cutoff, skin)]

\* The pairs the loops over neighbors(i) visit, in loop order.
RECURSIVE ListedPairs(_, _, _, _)
ListedPairs(nl, n, i, m) ==
  IF i > n THEN <<>>
  ELSE IF i > Len(nl.neighbors_) \/ m > Len(nl.neighbors_[i]) THEN ListedPairs(nl, n, i + 1, 1)
  ELSE <<<<i, nl.neighbors_[i][m]>>>> \o ListedPairs(nl, n, i, m + 1)

\* NeighborForceField::compute_forces_internal
compute_forces_internal(nff, sys, lat) ==
  IF nff.potential_.null THEN [sys |-> sys, epot |-> 0]
  ELSE Let(ListedPairs(nff.nlist_, Len(sys), 1, 1),
           LAMBDA pairs : AccumulatePairs(sys, lat, nff.potential_, pairs))

\* NeighborForceField::compute_forces; result [nff, sys, epot]
NeighborForceField_compute_forces(nff, sys, lat) ==
  Let(IF needs_rebuild(nff.nlist_, sys, lat) THEN build(nff.nlist_, sys, lat) ELSE nff.nlist_,
      LAMBDA nl2 :
        Let(compute_forces_internal([nff EXCEPT !.nlist_ = nl2], sys, lat),
            LAMBDA r : [nff |-> [nff EXCEPT !.nlist_ = nl2], sys |-> r.sys, epot |-> r.epot]))

\* NeighborForceField::compute_energy; result [nff, epot]
NeighborForceField_compute_energy(nff, sys, lat) ==
  Let(IF needs_rebuild(nff.nlist_, sys, lat) THEN build(nff.nlist_, sys, lat) ELSE nff.nlist_,
      LAMBDA nl2 :
        [nff |-> [nff EXCEPT !.nlist_ = nl2],
         epot |-> IF nff.potential_.null THEN 0
                  ELSE AccumulatePairs(sys, lat, nff.potential_,
                                       ListedPairs(nl2, Len(sys), 1, 1)).epot])

(***************************************************************************)
(* Integrator and particle system                                          *)
(***************************************************************************)
\* VelocityVerlet::step1 (mass 1.0, half_dt_ = dt/2)
step1(sys, dt) ==
  Vec([i \in DOMAIN sys |->
     LET v == <<sys[i].vel[1] + (dt \div 2) * sys[i].force[1],
                sys[i].vel[2] + (dt \div 2) * sys[i].force[2]>>
     IN [sys[i] EXCEPT !.vel = v,
                       !.pos = <<sys[i].pos[1] + dt * v[1], sys[i].pos[2] + dt * v[2]>>]])

\* VelocityVerlet::step2
step2(sys, dt) ==
  Vec([i \in DOMAIN sys |->
     [sys[i] EXCEPT !.vel = <<sys[i].vel[1] + (dt \div 2) * sys[i].force[1],
                              sys[i].vel[2] + (dt \div 2) * sys[i].force[2]>>]])

apply_pbc(sys, lat) ==
  Vec([i \in DOMAIN sys |-> [sys[i] EXCEPT !.pos = wrap_cartesian(lat, sys[i].pos)]])

\* Thermostat::apply of a rescaling thermostat: every velocity is multiplied
\* by the factor lambda, which the model holds in the thermostat (1 for
\* NullThermostat)
Thermostat_apply(th, sys, dt) ==
  Vec([i \in DOMAIN sys |->
     [sys[i] EXCEPT !.vel = <<th.lambda * sys[i].vel[1], th.lambda * sys[i].vel[2]>>]])

RECURSIVE SumVel(_, _, _)
SumVel(sys, n, d) == IF n = 0 THEN 0 ELSE sys[n].vel[d] + SumVel(sys, n - 1, d)

zero_com_velocity(sys) ==
  LET n == Len(sys)
      com == <<IF n > 0 THEN SumVel(sys, n, 1) \div n ELSE 0,
               IF n > 0 THEN SumVel(sys, n, 2) \div n ELSE 0>>
  IN Vec([i \in DOMAIN sys |->
        [sys[i] EXCEPT !.vel = <<sys[i].vel[1] - com[1], sys[i].vel[2] - com[2]>>]])

(***************************************************************************)
(* Parameter records and validate()                                        *)
(***************************************************************************)
NoError == ""

\* Variant: validate() without the max_steps test.
SimulationParams_validate_no_max_steps(p) ==
  IF ~IsFinite(p.dt) \/ p.dt <= 0 THEN "Time step 'dt' must be positive and finite."
  ELSE IF ~IsFinite(p.end_time) \/ p.end_time < 0 THEN "End time must be non-negative and finite."
  ELSE IF ~IsFinite(p.temperature) \/ p.temperature < 0
       THEN "Temperature must be non-negative and finite."
  ELSE IF ~IsFinite(p.cutoff) \/ p.cutoff <= 0 THEN "Force cutoff must be positive and finite."
  ELSE IF ~IsFinite(p.neighbor_skin) \/ p.neighbor_skin < 0
       THEN "Neighbor skin must be non-negative and finite."
  ELSE IF p.end_time > 0 /\ p.dt > p.end_time THEN "Time step cannot be greater than end time."
  ELSE NoError

\* SimulationParams::validate: the error string, NoError for std::nullopt
SimulationParams_validate(p) ==
  IF ~IsFinite(p.dt) \/ p.dt <= 0 THEN "Time step 'dt' must be positive and finite."
  ELSE IF ~IsFinite(p.end_time) \/ p.end_time < 0 THEN "End time must be non-negative and finite."
  ELSE IF p.max_steps = 0 THEN "Maximum steps must be greater than 0."
  ELSE IF ~IsFinite(p.temperature) \/ p.temperature < 0
       THEN "Temperature must be non-negative and finite."
  ELSE IF ~IsFinite(p.cutoff) \/ p.cutoff <= 0 THEN "Force cutoff must be positive and finite."
  ELSE IF ~IsFinite(p.neighbor_skin) \/ p.neighbor_skin < 0
       THEN "Neighbor skin must be non-negative and finite."
  ELSE IF p.end_time > 0 /\ p.dt > p.end_time THEN "Time step cannot be greater than end time."
  ELSE NoError

\* dx * dx is not a finite Real
LimitOverflows(p) == p.dx * p.dx > RealMax

\* HeatDiffusionParams::stability_limit with the test of validate():
\* !std::isfinite(limit) || dt > limit, the quotient compared exactly
Heat_exceeds_limit(p) ==
  IF p.alpha <= 0 \/ p.dx <= 0 THEN p.dt > 0
  ELSE IF LimitOverflows(p) THEN TRUE
  ELSE 2 * p.alpha * p.dt > p.dx * p.dx

HeatDiffusionParams_validate(p) ==
  IF ~IsFinite(p.alpha) \/ p.alpha <= 0
    THEN "Thermal diffusivity alpha must be positive and finite."
  ELSE IF ~IsFinite(p.dx) \/ p.dx <= 0 THEN "Grid spacing dx must be positive and finite."
  ELSE IF ~IsFinite(p.dt) \/ p.dt <= 0 THEN "Time step dt must be positive and finite."
  ELSE IF ~IsFinite(p.end_time) \/ p.end_time < 0 THEN "End time must be non-negative and finite."
  ELSE IF p.max_steps = 0 THEN "Maximum steps must be greater than 0."
  ELSE IF p.n_cells < 2 THEN "Number of cells must be at least 2."
  ELSE IF Heat_exceeds_limit(p) THEN "Time step dt exceeds stability limit (dt <= dx^2/(2*alpha))."
  ELSE NoError

\* Variant: the 2D limit computed with the 1D factor, dx^2/(2*alpha).
Heat2D_exceeds_limit_1d(p) ==
  IF p.alpha <= 0 \/ p.dx <= 0 THEN p.dt > 0
  ELSE IF LimitOverflows(p) THEN TRUE
  ELSE 2 * p.alpha * p.dt > p.dx * p.dx

\* HeatDiffusion2DParams::stability_limit with the test of validate():
\* !std::isfinite(limit) || dt > limit
Heat2D_exceeds_limit(p) ==
  IF p.alpha <= 0 \/ p.dx <= 0 THEN p.dt > 0
  ELSE IF LimitOverflows(p) THEN TRUE
  ELSE 4 * p.alpha * p.dt > p.dx * p.dx

HeatDiffusion2DParams_validate(p) ==
  IF ~IsFinite(p.alpha) \/ p.alpha <= 0
    THEN "Thermal diffusivity alpha must be positive and finite."
  ELSE IF ~IsFinite(p.dx) \/ p.dx <= 0 THEN "Grid spacing dx must be positive and finite."
  ELSE IF ~IsFinite(p.dt) \/ p.dt <= 0 THEN "Time step dt must be positive and finite."
  ELSE IF ~IsFinite(p.end_time) \/ p.end_time < 0 THEN "End time must be non-negative and finite."
  ELSE IF p.max_steps = 0 THEN "Maximum steps must be greater than 0."
  ELSE IF p.nx < 3 THEN "Grid dimension nx must be at least 3 (need interior cells)."
  ELSE IF p.ny < 3 THEN "Grid dimension ny must be at least 3 (need interior cells)."
  ELSE IF ~IsFinite(p.T_boundary) \/ p.T_boundary < 0
       THEN "Boundary temperature must be non-negative and finite."
  ELSE IF ~IsFinite(p.T_hot) \/ p.T_hot <= p.T_boundary
       THEN "Hot temperature must be finite and greater than boundary temperature."
  ELSE IF p.ic = "HotCenter" /\ (~IsFinite(p.hot_radius_frac) \/ p.hot_radius_frac <= 0)
       THEN "Hot radius fraction must be positive and finite."
  ELSE IF Heat2D_exceeds_limit(p)
       THEN "Time step dt exceeds 2D stability limit: dt <= dx^2 / (4*alpha). Reduce dt or increase dx."
  ELSE NoError

(***************************************************************************)
(* Heat models (ISimModel).  A model is a record; kind "1D" or "2D".       *)
(* Temperatures are integers; the stencil's product with r is taken in     *)
(* fixed point (floor).                                                    *)
(***************************************************************************)
NoModel ==
  [set |-> FALSE, kind |-> "none", params |-> [dt |-> 0], n_ |-> 0, nx_ |-> 0, ny_ |-> 0,
   T_ |-> <<>>, T_next_ |-> <<>>, time_ |-> 0, step_count_ |-> 0,
   error_msg_ |-> NoError, valid_ |-> FALSE]

InteriorT == 300

\* HeatDiffusionModel::initialize (cells 1..n; ends 0, interior 300)
Heat_initial(n) == [i \in 1..n |-> IF i = 1 \/ i = n THEN 0 ELSE InteriorT]

\* Variant: the constructor records the validation error but goes on to
\* initialize the field and mark the model valid.
HeatDiffusionModel_no_return(params) ==
  [NoModel EXCEPT !.set = TRUE, !.kind = "1D", !.params = params,
                  !.n_ = params.n_cells,
                  !.error_msg_ = HeatDiffusionParams_validate(params),
                  !.T_ = Heat_initial(params.n_cells),
                  !.T_next_ = Heat_initial(params.n_cells),
                  !.valid_ = TRUE]

\* HeatDiffusionModel::HeatDiffusionModel
HeatDiffusionModel(params) ==
  LET err == HeatDiffusionParams_validate(params)
  IN IF err # NoError
     THEN [NoModel EXCEPT !.set = TRUE, !.kind = "1D", !.params = params,
                          !.n_ = params.n_cells, !.error_msg_ = err]
     ELSE [NoModel EXCEPT !.set = TRUE, !.kind = "1D", !.params = params,
                          !.n_ = params.n_cells,
                          !.T_ = Heat_initial(params.n_cells),
                          !.T_next_ = Heat_initial(params.n_cells),
                          !.valid_ = TRUE]

\* Variant: the end-time test is strict, time_ > end_time.
HeatDiffusionModel_finished_strict(m) ==
  IF ~m.valid_ THEN TRUE
  ELSE IF m.step_count_ >= m.params.max_steps THEN TRUE
  ELSE IF m.time_ > m.params.end_time THEN TRUE
  ELSE FALSE

\* HeatDiffusionModel::finished
HeatDiffusionModel_finished(m) ==
  IF ~m.valid_ THEN TRUE
  ELSE IF m.step_count_ >= m.params.max_steps THEN TRUE
  ELSE IF m.time_ >= m.params.end_time THEN TRUE
  ELSE FALSE

\* r * x with r = alpha*dt/dx^2
TimesR(p, x) == (p.alpha * p.dt * x) \div (p.dx * p.dx)

\* HeatDiffusionModel::step; result [m, ret]
HeatDiffusionModel_step(m) ==
  IF ~m.valid_ \/ HeatDiffusionModel_finished(m) THEN [m |-> m, ret |-> FALSE]
  ELSE
    LET n  == m.n_
        Tn == [i \in 1..n |->
                 IF i = 1 \/ i = n THEN m.T_[i]
                 ELSE m.T_[i] + TimesR(m.params, m.T_[i - 1] - 2 * m.T_[i] + m.T_[i + 1])]
        t  == RAdd(m.time_, m.params.dt)
        m2 == [m EXCEPT !.T_ = Tn, !.T_next_ = m.T_, !.time_ = t,
                        !.step_count_ = m.step_count_ + 1]
    IN IF ~IsFinite(t)
       THEN [m |-> [m2 EXCEPT !.error_msg_ = "Time became non-finite.", !.valid_ = FALSE],
             ret |-> FALSE]
       ELSE [m |-> m2, ret |-> TRUE]

IsBoundary(nx, ny, k) ==
  LET i == (k - 1) % nx
      j == (k - 1) \div nx
  IN i = 0 \/ i = nx - 1 \/ j = 0 \/ j = ny - 1

\* a temperature that is not a number
NaN == NegInf - 1

\* the least sigma (in quanta of hot_radius_frac) whose square is a positive
\* Real; the square of a smaller positive sigma underflows to zero
SigmaMin == 2

\* T_delta * std::exp(-r2 * inv_2sigma2): a positive, decreasing profile.
\* When sigma * sigma underflows, inv_2sigma2 = 1.0 / 0.0 is +Inf: the
\* product -r2 * Inf is -Inf off the centre (exp gives 0) and, where r2 = 0,
\* it is -0.0 * Inf = NaN.
GaussProfile(p, i, j) ==
  LET ex == (2 * i + 1 - p.nx) * p.ny
      ey == (2 * j + 1 - p.ny) * p.nx
      D2 == ex * ex + ey * ey
      s2 == 8 * p.nx * p.nx * p.ny * p.ny * p.hot_radius_frac * p.hot_radius_frac
  IN IF p.hot_radius_frac < SigmaMin
     THEN (IF D2 = 0 THEN NaN ELSE 0)
     ELSE (p.T_hot - p.T_boundary) \div (1 + D2 \div s2)

\* Variant: only the top and the bottom row are re-forced to T_boundary.
apply_boundary_conditions_rows_only(p, field) ==
  [k \in DOMAIN field |->
     IF (k - 1) \div p.nx = 0 \/ (k - 1) \div p.nx = p.ny - 1 THEN p.T_boundary ELSE field[k]]

\* HeatDiffusion2DModel::apply_boundary_conditions
apply_boundary_conditions(p, field) ==
  [k \in DOMAIN field |-> IF IsBoundary(p.nx, p.ny, k) THEN p.T_boundary ELSE field[k]]

\* HeatDiffusion2DModel::initialize
Heat2D_initial(p) ==
  apply_boundary_conditions(p,
    [k \in 1..(p.nx * p.ny) |->
       IF p.ic = "HotCenter"
       THEN LET g == GaussProfile(p, (k - 1) % p.nx, (k - 1) \div p.nx)
            IN IF g = NaN THEN NaN ELSE p.T_boundary + g
       ELSE p.T_hot])

\* HeatDiffusion2DModel::HeatDiffusion2DModel
HeatDiffusion2DModel(params) ==
  LET err == HeatDiffusion2DParams_validate(params)
  IN IF err # NoError
     THEN [NoModel EXCEPT !.set = TRUE, !.kind = "2D", !.params = params,
                          !.nx_ = params.nx, !.ny_ = params.ny, !.error_msg_ = err]
     ELSE [NoModel EXCEPT !.set = TRUE, !.kind = "2D", !.params = params,
                          !.nx_ = params.nx, !.ny_ = params.ny,
                          !.T_ = Heat2D_initial(params),
                          !.T_next_ = Heat2D_initial(params),
                          !.valid_ = TRUE]

\* HeatDiffusion2DModel::finished
\* Variant: finished() of the 2D model without the max_steps test.
HeatDiffusion2DModel_finished_no_max_steps(m) ==
  IF ~m.valid_ THEN TRUE
  ELSE IF m.params.end_time > 0 /\ m.time_ >= m.params.end_time THEN TRUE
  ELSE FALSE

HeatDiffusion2DModel_finished(m) ==
  IF ~m.valid_ THEN TRUE
  ELSE IF m.step_count_ >= m.params.max_steps THEN TRUE
  ELSE IF m.params.end_time > 0 /\ m.time_ >= m.params.end_time THEN TRUE
  ELSE FALSE

\* HeatDiffusion2DModel::step; result [m, ret].  Cells the stencil does not
\* write keep the value T_next_ held.
HeatDiffusion2DModel_step(m) ==
  IF ~m.valid_ \/ HeatDiffusion2DModel_finished(m) THEN [m |-> m, ret |-> FALSE]
  ELSE
    LET nx == m.nx_
        Tn == apply_boundary_conditions(m.params,
                [k \in DOMAIN m.T_ |->
                   IF IsBoundary(nx, m.ny_, k) THEN m.T_next_[k]
                   ELSE IF NaN \in {m.T_[k], m.T_[k - 1], m.T_[k + 1], m.T_[k - nx], m.T_[k + nx]}
                   THEN NaN
                   ELSE m.T_[k] + TimesR(m.params,
                          m.T_[k - 1] + m.T_[k + 1] + m.T_[k - nx] + m.T_[k + nx] - 4 * m.T_[k])])
        t  == RAdd(m.time_, m.params.dt)
        m2 == [m EXCEPT !.T_ = Tn, !.T_next_ = m.T_, !.time_ = t,
                        !.step_count_ = m.step_count_ + 1]
    IN IF ~IsFinite(t)
       THEN [m |-> [m2 EXCEPT !.error_msg_ = "Time became non-finite.", !.valid_ = FALSE],
             ret |-> FALSE]
       ELSE [m |-> m2, ret |-> TRUE]

\* Variant: the model's step advances time but leaves step_count_ alone.
model_step_no_count(m) ==
  LET r == IF m.kind = "1D" THEN HeatDiffusionModel_step(m) ELSE HeatDiffusion2DModel_step(m)
  IN [r EXCEPT !.m.step_count_ = m.step_count_]

\* virtual dispatch through ISimModel
model_step(m) == IF m.kind = "1D" THEN HeatDiffusionModel_step(m) ELSE HeatDiffusion2DModel_step(m)

model_finished(m) ==
  IF m.kind = "1D" THEN HeatDiffusionModel_finished(m) ELSE HeatDiffusion2DModel_finished(m)

(***************************************************************************)
(* Simulation                                                              *)
(***************************************************************************)
VARIABLES
  mode_,                  \* SimMode: "MD", "HeatDiffusion", "HeatDiffusion2D"
  model_,                 \* the ISimModel, NoModel in MD mode
  params_,                \* SimulationParams
  time_, step_count_, valid_, error_msg_,
  system_,                \* ParticleSystem: sequence of particles
  lattice_,
  force_field_,           \* ForceField, .set FALSE when the pointer is null
  neighbor_force_field_,  \* NeighborForceField, likewise
  last_epot_,
  pc,                     \* the caller: "idle", "running" (inside run()), "done"
  ret,                    \* result of the last step() call: "none", "true", "false"
  ref_system,             \* ForceField evaluation of the same particles (comparison run)
  ref_epot,
  alloc,                  \* bounded_allocator state
  cfg,                    \* a load_config call: its position, locals and ConfigResult
  geom,                   \* a Lattice member call: its arguments, locals and position
  thermostat_,            \* Thermostat, .set FALSE when the pointer is null
  step_callback_,         \* TRUE when a StepCallback is installed
  callback_log,           \* what each callback invocation read: <<time(), step_count()>>
  gui                     \* MainWindow::Impl: the run controller of the GUI

simvars == <<mode_, model_, params_, time_, step_count_, valid_, error_msg_, system_,
             lattice_, force_field_, neighbor_force_field_, last_epot_, pc, ret>>
refvars == <<ref_system, ref_epot>>
hookvars == <<thermostat_, step_callback_, callback_log>>
vars == <<simvars, refvars, alloc, cfg, geom, hookvars, gui>>

NoForceField == [set |-> FALSE, potential_ |-> NullPotential]
NoNeighborForceField == [set |-> FALSE, potential_ |-> NullPotential, nlist_ |-> MakeNeighborList(0, 0)]
MakeForceField(pot) == [set |-> TRUE, potential_ |-> pot]

DefaultParams ==
  [dt |-> 1, dx |-> 1, end_time |-> 0, max_steps |-> MaxSteps, temperature |-> 300, cutoff |-> 1,
   use_neighbor_list |-> TRUE, neighbor_skin |-> 1]

\* no load_config call in progress
CfgIdle ==
  [pc |-> "idle", path_empty |-> TRUE, line_no |-> 0, p |-> DefaultParams, ok |-> FALSE,
   error |-> [text |-> "", line |-> 0], seen |-> "none"]

\* no Lattice member call in progress
GeomIdle ==
  [op |-> "none", pc |-> "idle", lat |-> <<>>, in |-> <<0, 0>>, frac |-> <<0, 0>>, i |-> 1,
   turns |-> 0, out |-> <<0, 0>>]

\* a null thermostat_ pointer
NoThermostat == [set |-> FALSE, lambda |-> 1]

\* no thermostat, no step callback, no callback invocation so far
HooksIdle == thermostat_ = NoThermostat /\ step_callback_ = FALSE /\ callback_log = <<>>

\* MainWindow::Impl::simulation when the pointer is null
NoSimulation == [set |-> FALSE, id |-> 0, mode |-> "MD", left |-> 0]

\* the run controller after the MainWindow constructor: no Simulation, the
\* timer configured but not started.  made counts the Simulation objects
\* created so far (an object's id), last names the slot that ran last.
GuiIdle == [simulation |-> NoSimulation, timer |-> FALSE, running |-> FALSE,
            status |-> "Ready", made |-> 0, last |-> "none"]

\* Simulation::has_lattice
has_lattice == Volume(lattice_) # 0

\* Variant: is_valid() answers from the Simulation's own flag in every mode.
is_valid_own_flag == valid_

\* Simulation::is_valid, error_message, time, step_count
is_valid == IF model_.set THEN model_.valid_ ELSE valid_
error_message == IF model_.set THEN model_.error_msg_ ELSE error_msg_
time == IF model_.set THEN model_.time_ ELSE time_
step_count == IF model_.set THEN model_.step_count_ ELSE step_count_

\* Variant: finished() without the end_time test of MD mode.
finished_no_end_time ==
  IF model_.set THEN model_finished(model_)
  ELSE IF ~valid_ THEN TRUE
  ELSE IF step_count_ >= params_.max_steps THEN TRUE
  ELSE FALSE

\* Simulation::finished
finished ==
  IF model_.set THEN model_finished(model_)
  ELSE IF ~valid_ THEN TRUE
  ELSE IF step_count_ >= params_.max_steps THEN TRUE
  ELSE IF params_.end_time > 0 /\ time_ >= params_.end_time THEN TRUE
  ELSE FALSE

\* Simulation::set_potential; result [ff, nff]
set_potential(p, pot) ==
  IF p.use_neighbor_list
  THEN [ff |-> NoForceField, nff |-> MakeNeighborForceField(pot, p.cutoff, p.neighbor_skin)]
  ELSE [ff |-> MakeForceField(pot), nff |-> NoNeighborForceField]

\* Simulation::potential
potential == IF force_field_.set THEN force_field_.potential_ ELSE NullPotential

\* Simulation::compute_forces; result [nff, sys, epot]
compute_forces(sys) ==
  LET lat == IF has_lattice THEN lattice_ ELSE NoLattice
  IN IF neighbor_force_field_.set
     THEN NeighborForceField_compute_forces(neighbor_force_field_, sys, lat)
     ELSE IF force_field_.set
     THEN LET r == ForceField_compute_forces(force_field_.potential_, sys, lat)
          IN [nff |-> neighbor_force_field_, sys |-> r.sys, epot |-> r.epot]
     ELSE [nff |-> neighbor_force_field_, sys |-> clear_forces(sys), epot |-> 0]

\* Simulation::initialize; result [nff, sys, epot]
initialize ==
  IF Len(system_) = 0
  THEN [nff |-> neighbor_force_field_, sys |-> system_, epot |-> last_epot_]
  ELSE Let(zero_com_velocity(system_), LAMBDA s : compute_forces(s))

\* Variant: the clamp waits until the advanced time has reached end_time.
within_half_step_late(t, p) == t >= p.end_time

\* time_ >= end_time - dt*0.5, compared exactly
within_half_step(t, p) == 2 * t >= 2 * p.end_time - p.dt

\* Simulation::step.  The result record holds the new value of every field
\* the call can write, and the value returned.
Unchanged ==
  [model |-> model_, time |-> time_, step_count |-> step_count_, valid |-> valid_,
   error_msg |-> error_msg_, sys |-> system_, nff |-> neighbor_force_field_,
   epot |-> last_epot_, log |-> callback_log, ret |-> FALSE]

\* Variant: the forces are evaluated before the first half-step.
Simulation_step_forces_first ==
  IF model_.set
  THEN LET r == model_step(model_) IN [Unchanged EXCEPT !.model = r.m, !.ret = r.ret]
  ELSE IF ~valid_ THEN [Unchanged EXCEPT !.error_msg = "Simulation not properly initialized"]
  ELSE IF finished THEN Unchanged
  ELSE IF step_count_ >= params_.max_steps
       THEN [Unchanged EXCEPT !.error_msg = "Maximum step count reached"]
  ELSE
    Let(compute_forces(system_), LAMBDA f0 :
    Let(step1(f0.sys, params_.dt), LAMBDA s1 :
    Let(IF has_lattice THEN apply_pbc(s1, lattice_) ELSE s1, LAMBDA s2 :
    Let([f0 EXCEPT !.sys = s2], LAMBDA f :
    Let(step2(f.sys, params_.dt), LAMBDA s3 :
    Let([Unchanged EXCEPT !.sys = IF thermostat_.set
                                  THEN Thermostat_apply(thermostat_, s3, params_.dt) ELSE s3,
                          !.nff = f.nff, !.epot = f.epot,
                          !.time = RAdd(time_, params_.dt),
                          !.step_count = step_count_ + 1], LAMBDA adv :
      IF ~IsFinite(adv.time)
      THEN [adv EXCEPT !.error_msg = "Time value became non-finite", !.valid = FALSE]
      ELSE IF params_.end_time > 0 /\ within_half_step(adv.time, params_)
      THEN [adv EXCEPT !.time = params_.end_time]
      ELSE IF step_callback_
      THEN [adv EXCEPT !.log = Append(callback_log, <<adv.time, adv.step_count>>), !.ret = TRUE]
      ELSE [adv EXCEPT !.ret = TRUE]))))))

\* Variant: the callback is invoked before the end_time test.
Simulation_step_callback_early ==
  IF model_.set
  THEN LET r == model_step(model_) IN [Unchanged EXCEPT !.model = r.m, !.ret = r.ret]
  ELSE IF ~valid_ THEN [Unchanged EXCEPT !.error_msg = "Simulation not properly initialized"]
  ELSE IF finished THEN Unchanged
  ELSE IF step_count_ >= params_.max_steps
       THEN [Unchanged EXCEPT !.error_msg = "Maximum step count reached"]
  ELSE
    Let(step1(system_, params_.dt), LAMBDA s1 :
    Let(IF has_lattice THEN apply_pbc(s1, lattice_) ELSE s1, LAMBDA s2 :
    Let(compute_forces(s2), LAMBDA f :
    Let(step2(f.sys, params_.dt), LAMBDA s3 :
    Let([Unchanged EXCEPT !.sys = IF thermostat_.set
                                  THEN Thermostat_apply(thermostat_, s3, params_.dt) ELSE s3,
                          !.nff = f.nff, !.epot = f.epot,
                          !.time = RAdd(time_, params_.dt),
                          !.step_count = step_count_ + 1], LAMBDA adv :
      IF ~IsFinite(adv.time)
      THEN [adv EXCEPT !.error_msg = "Time value became non-finite", !.valid = FALSE]
      ELSE Let(IF step_callback_
               THEN [adv EXCEPT !.log = Append(callback_log, <<adv.time, adv.step_count>>)]
               ELSE adv, LAMBDA called :
        IF params_.end_time > 0 /\ within_half_step(called.time, params_)
        THEN [called EXCEPT !.time = params_.end_time]
        ELSE [called EXCEPT !.ret = TRUE]))))))

Simulation_step ==
  IF model_.set
  THEN LET r == model_step(model_) IN [Unchanged EXCEPT !.model = r.m, !.ret = r.ret]
  ELSE IF ~valid_ THEN [Unchanged EXCEPT !.error_msg = "Simulation not properly initialized"]
  ELSE IF finished THEN Unchanged
  ELSE IF step_count_ >= params_.max_steps
       THEN [Unchanged EXCEPT !.error_msg = "Maximum step count reached"]
  ELSE
    Let(step1(system_, params_.dt), LAMBDA s1 :
    Let(IF has_lattice THEN apply_pbc(s1, lattice_) ELSE s1, LAMBDA s2 :
    Let(compute_forces(s2), LAMBDA f :
    Let(step2(f.sys, params_.dt), LAMBDA s3 :
    Let([Unchanged EXCEPT !.sys = IF thermostat_.set
                                  THEN Thermostat_apply(thermostat_, s3, params_.dt) ELSE s3,
                          !.nff = f.nff, !.epot = f.epot,
                          !.time = RAdd(time_, params_.dt),
                          !.step_count = step_count_ + 1], LAMBDA adv :
      IF ~IsFinite(adv.time)
      THEN [adv EXCEPT !.error_msg = "Time value became non-finite", !.valid = FALSE]
      ELSE IF params_.end_time > 0 /\ within_half_step(adv.time, params_)
      THEN [adv EXCEPT !.time = params_.end_time]
      ELSE IF step_callback_
      THEN [adv EXCEPT !.log = Append(callback_log, <<adv.time, adv.step_count>>), !.ret = TRUE]
      ELSE [adv EXCEPT !.ret = TRUE])))))

(***************************************************************************)
(* Construction: the parameter records a caller may hand in                *)
(***************************************************************************)
MDParamSet ==
  [dt : {0, 2, 4, Inf}, end_time : {0 - 1, 0, 3, 5, 7}, max_steps : 0..MaxSteps,
   temperature : {0 - 1, 300}, cutoff : {0, 2, Inf}, use_neighbor_list : BOOLEAN,
   neighbor_skin : {0 - 2, 2}]

HeatParamSet ==
  [alpha : {0, 1}, dx : {2, 3, 4}, dt : {0, 1, 2, 4}, end_time : {0 - 1, 0, 3, 9},
   max_steps : 0..MaxSteps, n_cells : {1, 2, 4}]

Heat2DParamSet ==
  [alpha : {0, 1}, dx : {2, 3, 4}, dt : {0, 1, 4}, end_time : {0 - 1, 0, 2},
   max_steps : 0..MaxSteps, nx : {2, 3}, ny : {3, 4}, T_boundary : {0 - 1, 100},
   ic : {"HotCenter", "UniformHot"}, T_hot : {100, 1200},
   hot_radius_frac : {0, 1, SigmaMin}]

PotentialSet == {NullPotential, MakePotential(2)}

\* particle scenes a caller seeds through system()
SceneSet ==
  {<<>>,
   <<MakeParticle(<<0, 0>>, <<2, 0>>), MakeParticle(<<1, 0>>, <<0, 0>>)>>,
   <<MakeParticle(<<0, 1>>, <<0, 0>>), MakeParticle(<<1, 0>>, <<0, 2>>),
     MakeParticle(<<MaxCoord, 1>>, <<0, 0 - 2>>)>>}

\* cells a caller installs with set_lattice(): the unit cell, a degenerate
\* cell, a small rectangular cell and a sheared cell
LatticeSet ==
  {DefaultLattice, <<<<0, 0>>, <<0, 0>>>>, <<<<3, 0>>, <<0, 2>>>>, <<<<4, 0>>, <<2, 4>>>>}

\* a cell whose volume is not zero, yet below epsilon
TinyCell == <<<<2, 0>>, <<0, 1>>>>

AllocIdle ==
  [def |-> 0, max_bytes |-> 0, current_bytes |-> 0, blocks |-> <<>>, req |-> 0, last |-> "none"]

RefIdle == ref_system = <<>> /\ ref_epot = 0

\* Simulation::Simulation(const SimulationParams&, std::shared_ptr<Potential>)
InitMD ==
  \E p \in MDParamSet, pot \in PotentialSet, scene \in SceneSet, lat \in LatticeSet :
    LET err == SimulationParams_validate(p)
        ffs == IF err = NoError /\ ~pot.null THEN set_potential(p, pot)
               ELSE [ff |-> NoForceField, nff |-> NoNeighborForceField]
    IN /\ mode_ = "MD"
       /\ model_ = NoModel
       /\ params_ = p
       /\ time_ = 0
       /\ step_count_ = 0
       /\ valid_ = (err = NoError)
       /\ error_msg_ = err
       /\ system_ = scene
       /\ lattice_ = lat
       /\ force_field_ = ffs.ff
       /\ neighbor_force_field_ = ffs.nff
       /\ last_epot_ = 0

\* Simulation::Simulation(const HeatDiffusionParams&)
InitHeat ==
  \E hp \in HeatParamSet :
    LET m == HeatDiffusionModel(hp)
    IN /\ mode_ = "HeatDiffusion"
       /\ model_ = m
       /\ params_ = DefaultParams
       /\ time_ = 0
       /\ step_count_ = 0
       /\ valid_ = m.valid_
       /\ error_msg_ = (IF ~m.valid_ THEN m.error_msg_ ELSE NoError)
       /\ system_ = <<>>
       /\ lattice_ = DefaultLattice
       /\ force_field_ = NoForceField
       /\ neighbor_force_field_ = NoNeighborForceField
       /\ last_epot_ = 0

\* Simulation::Simulation(const HeatDiffusion2DParams&)
InitHeat2D ==
  \E hp \in Heat2DParamSet :
    LET m == HeatDiffusion2DModel(hp)
    IN /\ mode_ = "HeatDiffusion2D"
       /\ model_ = m
       /\ params_ = DefaultParams
       /\ time_ = 0
       /\ step_count_ = 0
       /\ valid_ = m.valid_
       /\ error_msg_ = (IF ~m.valid_ THEN m.error_msg_ ELSE NoError)
       /\ system_ = <<>>
       /\ lattice_ = DefaultLattice
       /\ force_field_ = NoForceField
       /\ neighbor_force_field_ = NoNeighborForceField
       /\ last_epot_ = 0

Init ==
  /\ (InitMD \/ InitHeat \/ InitHeat2D)
  /\ pc = "idle"
  /\ ret = "none"
  /\ RefIdle
  /\ alloc = AllocIdle
  /\ cfg = CfgIdle
  /\ geom = GeomIdle
  /\ HooksIdle
  /\ gui = GuiIdle

\* the writes of one step() call
ApplyStep(r) ==
  /\ model_' = r.model
  /\ time_' = r.time
  /\ step_count_' = r.step_count
  /\ valid_' = r.valid
  /\ error_msg_' = r.error_msg
  /\ system_' = r.sys
  /\ neighbor_force_field_' = r.nff
  /\ last_epot_' = r.epot
  /\ ret' = (IF r.ret THEN "true" ELSE "false")
  /\ callback_log' = r.log
  /\ UNCHANGED <<mode_, params_, lattice_, force_field_, refvars, alloc, cfg, geom,
                 thermostat_, step_callback_, gui>>

\* a caller invokes step() once
Step ==
  /\ pc # "running"
  /\ \E r \in {Simulation_step} : ApplyStep(r)
  /\ UNCHANGED pc

\* run(): entry (initialize() in MD mode), then one loop iteration per action
RunBegin ==
  /\ pc = "idle"
  /\ pc' = "running"
  /\ IF model_.set
     THEN UNCHANGED <<system_, neighbor_force_field_, last_epot_>>
     ELSE \E r \in {initialize} :
             /\ system_' = r.sys
             /\ neighbor_force_field_' = r.nff
             /\ last_epot_' = r.epot
  /\ UNCHANGED <<mode_, model_, params_, time_, step_count_, valid_, error_msg_, lattice_,
                 force_field_, ret, refvars, alloc, cfg, geom, hookvars, gui>>

RunStep ==
  /\ pc = "running"
  /\ \E r \in {Simulation_step} :
        /\ ApplyStep(r)
        /\ pc' = (IF r.ret THEN "running" ELSE "done")

Next == Step \/ RunBegin \/ RunStep

Spec == Init /\ [][Next]_vars

\* run() is a plain loop: once entered, its next iteration is always taken
FairSpec == Spec /\ WF_vars(RunStep)

(***************************************************************************)
(* NeighborForceField beside ForceField: the same particles are handed to  *)
(* both evaluators (system_ to the neighbor-list one, ref_system to the    *)
(* all-pairs one), a caller moves particles and asks for forces.           *)
(***************************************************************************)
\* the lattice pointer handed to compute_forces: null, a square cell, a
\* sheared cell, a cell with a volume below epsilon
NLLatticeSet == {NoLattice, <<<<8, 0>>, <<0, 8>>>>, <<<<8, 0>>, <<4, 8>>>>, TinyCell}

NLPotentialSet == {MakePotential(3), MakePotential(4)}

NLSkinSet == {0, 2}

\* the window each particle is moved in
NLWindow ==
  <<[lo |-> <<0, 0>>, hi |-> <<1, 0>>], [lo |-> <<4, 2>>, hi |-> <<6, 4>>]>>

InWindow(i, pos) ==
  /\ pos[1] >= NLWindow[i].lo[1] /\ pos[1] <= NLWindow[i].hi[1]
  /\ pos[2] >= NLWindow[i].lo[2] /\ pos[2] <= NLWindow[i].hi[2]

NLSceneSet ==
  {<<MakeParticle(<<0, 0>>, <<0, 0>>), MakeParticle(<<6, 4>>, <<0, 0>>)>>,
   <<MakeParticle(<<1, 0>>, <<0, 0>>), MakeParticle(<<4, 2>>, <<0, 0>>)>>}

UnitMoves == {<<1, 0>>, <<0 - 1, 0>>, <<0, 1>>, <<0, 0 - 1>>}

\* NeighborForceField(potential, cutoff, skin) with the potential's own
\* cutoff, and ForceField(potential), over one particle system
InitNL ==
  \E pot \in NLPotentialSet, skin \in NLSkinSet, lat \in NLLatticeSet, scene \in NLSceneSet :
    /\ mode_ = "MD"
    /\ model_ = NoModel
    /\ params_ = [DefaultParams EXCEPT !.cutoff = pot.cutoff, !.neighbor_skin = skin]
    /\ time_ = 0
    /\ step_count_ = 0
    /\ valid_ = TRUE
    /\ error_msg_ = NoError
    /\ system_ = scene
    /\ lattice_ = lat
    /\ force_field_ = MakeForceField(pot)
    /\ neighbor_force_field_ = MakeNeighborForceField(pot, pot.cutoff, skin)
    /\ last_epot_ = 0
    /\ ref_system = scene
    /\ ref_epot = 0
    /\ pc = "placed"
    /\ ret = "none"
    /\ alloc = AllocIdle
    /\ cfg = CfgIdle
    /\ geom = GeomIdle
    /\ HooksIdle
    /\ gui = GuiIdle

\* the caller moves one particle by one quantum along an axis
MoveParticle ==
  \E i \in DOMAIN system_, d \in UnitMoves :
    \E pos \in {<<system_[i].pos[1] + d[1], system_[i].pos[2] + d[2]>>} :
      /\ InWindow(i, pos)
      /\ system_' = [system_ EXCEPT ![i].pos = pos]
      /\ ref_system' = [ref_system EXCEPT ![i].pos = pos]
      /\ pc' = "moved"
      /\ UNCHANGED <<mode_, model_, params_, time_, step_count_, valid_, error_msg_, lattice_,
                     force_field_, neighbor_force_field_, last_epot_, ret, ref_epot, alloc, cfg, geom, hookvars, gui>>

\* the caller asks both evaluators for the forces
EvaluateForces ==
  \E r \in {NeighborForceField_compute_forces(neighbor_force_field_, system_, lattice_)},
     q \in {ForceField_compute_forces(force_field_.potential_, ref_system, lattice_)} :
    /\ system_' = r.sys
    /\ neighbor_force_field_' = r.nff
    /\ last_epot_' = r.epot
    /\ ref_system' = q.sys
    /\ ref_epot' = q.epot
    /\ pc' = "evaluated"
    /\ UNCHANGED <<mode_, model_, params_, time_, step_count_, valid_, error_msg_, lattice_,
                   force_field_, ret, alloc, cfg, geom, hookvars, gui>>

NextNL == MoveParticle \/ EvaluateForces

SpecNL == InitNL /\ [][NextNL]_vars

(***************************************************************************)
(* bounded_allocator<T, Inner>.  The header holds two definitions of the   *)
(* template: the first (def 1) keeps the counter in a shared State and     *)
(* updates it atomically, the second (def 2) keeps it by value.  size_type *)
(* arithmetic is modulo 2^SizeBits.  Inner is a template parameter: its    *)
(* allocate may return memory or throw for any request.                    *)
(***************************************************************************)
SizeMod == 2 ^ SizeBits

\* size_type need = n * sizeof(T)
need_bytes(n) == (n * SizeofT) % SizeMod

\* current + need > max_bytes, in size_type
over_ceiling(a, n) == (a.current_bytes + need_bytes(n)) % SizeMod > a.max_bytes

\* bounded_allocator::allocate, first definition; inner_ok is the outcome
\* of inner_traits::allocate
allocate_1(a, n, inner_ok) ==
  IF n = 0 THEN [a EXCEPT !.req = n, !.last = "nullptr"]
  ELSE IF over_ceiling(a, n) THEN [a EXCEPT !.req = n, !.last = "bad_alloc"]
  ELSE IF inner_ok
  THEN [a EXCEPT !.current_bytes = (a.current_bytes + need_bytes(n)) % SizeMod,
                 !.blocks = Append(a.blocks, n), !.req = n, !.last = "returned"]
  ELSE [a EXCEPT !.current_bytes =
                    (((a.current_bytes + need_bytes(n)) % SizeMod) - need_bytes(n)) % SizeMod,
                 !.req = n, !.last = "inner_throw"]

\* bounded_allocator::allocate, second definition
allocate_2(a, n, inner_ok) ==
  IF over_ceiling(a, n) THEN [a EXCEPT !.req = n, !.last = "bad_alloc"]
  ELSE IF inner_ok
  THEN [a EXCEPT !.current_bytes = (a.current_bytes + need_bytes(n)) % SizeMod,
                 !.blocks = Append(a.blocks, n), !.req = n, !.last = "returned"]
  ELSE [a EXCEPT !.current_bytes = (a.current_bytes + need_bytes(n)) % SizeMod,
                 !.req = n, !.last = "inner_throw"]

RemoveAt(s, k) == SubSeq(s, 1, k - 1) \o SubSeq(s, k + 1, Len(s))

\* bounded_allocator::deallocate (both definitions) of the k-th held block
deallocate(a, k) ==
  [a EXCEPT !.current_bytes = (a.current_bytes - need_bytes(a.blocks[k])) % SizeMod,
            !.blocks = RemoveAt(a.blocks, k), !.req = a.blocks[k], !.last = "freed"]

\* ceilings a caller constructs the allocator with; the default constructor
\* of the first definition gives size_t(-1)
MaxBytesSet == {8, 10, SizeMod - 1}

\* every Simulation variable at rest while the allocator is exercised
InitAlloc ==
  /\ mode_ = "MD"
  /\ model_ = NoModel
  /\ params_ = DefaultParams
  /\ time_ = 0
  /\ step_count_ = 0
  /\ valid_ = TRUE
  /\ error_msg_ = NoError
  /\ system_ = <<>>
  /\ lattice_ = DefaultLattice
  /\ force_field_ = NoForceField
  /\ neighbor_force_field_ = NoNeighborForceField
  /\ last_epot_ = 0
  /\ RefIdle
  /\ pc = "idle"
  /\ ret = "none"
  /\ cfg = CfgIdle
  /\ geom = GeomIdle
  /\ HooksIdle
  /\ gui = GuiIdle
  /\ \E d \in {1, 2}, m \in MaxBytesSet :
        alloc = [AllocIdle EXCEPT !.def = d, !.max_bytes = m]

Allocate ==
  /\ Len(alloc.blocks) < MaxBlocks
  /\ \E n \in 0..MaxCount, inner_ok \in BOOLEAN :
        alloc' = IF alloc.def = 1 THEN allocate_1(alloc, n, inner_ok)
                 ELSE allocate_2(alloc, n, inner_ok)
  /\ UNCHANGED <<simvars, refvars, cfg, geom, hookvars, gui>>

Deallocate ==
  /\ \E k \in DOMAIN alloc.blocks : alloc' = deallocate(alloc, k)
  /\ UNCHANGED <<simvars, refvars, cfg, geom, hookvars, gui>>

\* deallocate(nullptr, 0) after allocate(0) returned nullptr: first definition only
DeallocateNull ==
  /\ alloc.def = 1
  /\ alloc.last = "nullptr"
  /\ alloc' = [alloc EXCEPT !.req = 0, !.last = "ignored"]
  /\ UNCHANGED <<simvars, refvars, cfg, geom, hookvars, gui>>

NextAlloc == Allocate \/ Deallocate \/ DeallocateNull

SpecAlloc == InitAlloc /\ [][NextAlloc]_vars

(***************************************************************************)
(* Copies of one bounded_allocator.  Copy 1 is the allocator a container   *)
(* was constructed with, copy 2 the one a second container took from       *)
(* get_allocator(); user u allocates through copy u.  In the first         *)
(* definition the copies hold one State through a shared_ptr and allocate  *)
(* is a load, a compare-exchange loop and the inner allocation; in the     *)
(* second every copy holds max_bytes and current_bytes by value.           *)
(* alloc.state is the sequence of counters that exist: one for the first   *)
(* definition, one per copy for the second.                                *)
(***************************************************************************)
\* bytes of the blocks handed out and not yet deallocated
RECURSIVE LiveBytes(_)
LiveBytes(blocks) ==
  IF blocks = <<>> THEN 0 ELSE Head(blocks) * SizeofT + LiveBytes(Tail(blocks))

\* copies of the allocator, each used by its own thread
NumCopies == 2

\* largest element count a user of a copy requests
MaxCopyCount == 1

ThreadIdle == [pc |-> "idle", n |-> 0, need |-> 0, current |-> 0]

\* the counter copy c reads and writes: state (shared) or its own members
StateOf(a, c) == IF a.def = 1 THEN 1 ELSE c

\* bytes handed out through any copy and not yet deallocated
RECURSIVE OutstandingBytes(_, _)
OutstandingBytes(states, k) ==
  IF k = 0 THEN 0 ELSE LiveBytes(states[k].blocks) + OutstandingBytes(states, k - 1)

InitCopies ==
  /\ mode_ = "MD"
  /\ model_ = NoModel
  /\ params_ = DefaultParams
  /\ time_ = 0
  /\ step_count_ = 0
  /\ valid_ = TRUE
  /\ error_msg_ = NoError
  /\ system_ = <<>>
  /\ lattice_ = DefaultLattice
  /\ force_field_ = NoForceField
  /\ neighbor_force_field_ = NoNeighborForceField
  /\ last_epot_ = 0
  /\ RefIdle
  /\ pc = "idle"
  /\ ret = "none"
  /\ cfg = CfgIdle
  /\ geom = GeomIdle
  /\ HooksIdle
  /\ gui = GuiIdle
  /\ \E d \in {1, 2}, m \in {SizeofT, 2 * SizeofT} :
        alloc = [def |-> d,
                 state |-> [k \in 1..(IF d = 1 THEN 1 ELSE NumCopies) |->
                              [AllocIdle EXCEPT !.def = d, !.max_bytes = m]],
                 thr |-> [t \in 1..NumCopies |-> ThreadIdle]]

\* first definition, lines 45-49: n == 0 returns nullptr, else need is
\* computed and the counter loaded
AllocLoad(t) ==
  /\ alloc.def = 1
  /\ alloc.thr[t].pc = "idle"
  /\ Len(alloc.state[1].blocks) < MaxBlocks
  /\ \E n \in 0..MaxCopyCount :
       alloc' = IF n = 0
                THEN [alloc EXCEPT !.state[1].req = 0, !.state[1].last = "nullptr"]
                ELSE [alloc EXCEPT !.thr[t] = [pc |-> "loop", n |-> n, need |-> need_bytes(n),
                                               current |-> alloc.state[1].current_bytes]]
  /\ UNCHANGED <<simvars, refvars, cfg, geom, hookvars, gui>>

\* first definition, lines 50-56: one turn of the compare-exchange loop (a
\* failed exchange stores the counter's value into current)
AllocExchange(t) ==
  /\ alloc.def = 1
  /\ alloc.thr[t].pc = "loop"
  /\ LET th == alloc.thr[t]
         st == alloc.state[1]
     IN alloc' =
          IF (th.current + th.need) % SizeMod > st.max_bytes
          THEN [alloc EXCEPT !.thr[t] = ThreadIdle, !.state[1].req = th.n,
                             !.state[1].last = "bad_alloc"]
          ELSE IF st.current_bytes = th.current
          THEN [alloc EXCEPT !.thr[t].pc = "reserved",
                             !.state[1].current_bytes = (th.current + th.need) % SizeMod]
          ELSE [alloc EXCEPT !.thr[t].current = st.current_bytes]
  /\ UNCHANGED <<simvars, refvars, cfg, geom, hookvars, gui>>

\* first definition, lines 58-63: the inner allocation, with the rollback
AllocInner(t) ==
  /\ alloc.def = 1
  /\ alloc.thr[t].pc = "reserved"
  /\ \E inner_ok \in BOOLEAN :
       LET th == alloc.thr[t]
           st == alloc.state[1]
       IN alloc' =
            IF inner_ok
            THEN [alloc EXCEPT !.thr[t] = ThreadIdle,
                               !.state[1].blocks = Append(st.blocks, th.n),
                               !.state[1].req = th.n, !.state[1].last = "returned"]
            ELSE [alloc EXCEPT !.thr[t] = ThreadIdle,
                               !.state[1].current_bytes = (st.current_bytes - th.need) % SizeMod,
                               !.state[1].req = th.n, !.state[1].last = "inner_throw"]
  /\ UNCHANGED <<simvars, refvars, cfg, geom, hookvars, gui>>

\* second definition: allocate through copy t, on the copy's own members
AllocOwn(t) ==
  /\ alloc.def = 2
  /\ Len(alloc.state[t].blocks) < MaxBlocks
  /\ \E n \in 0..MaxCopyCount, inner_ok \in BOOLEAN :
       alloc' = [alloc EXCEPT !.state[t] = allocate_2(alloc.state[t], n, inner_ok)]
  /\ UNCHANGED <<simvars, refvars, cfg, geom, hookvars, gui>>

\* deallocate through copy t of a block that copy handed out
CopyDeallocate(t) ==
  /\ alloc.thr[t].pc = "idle"
  /\ \E k \in DOMAIN alloc.state[StateOf(alloc, t)].blocks :
       alloc' = [alloc EXCEPT !.state[StateOf(alloc, t)] =
                                 deallocate(alloc.state[StateOf(alloc, t)], k)]
  /\ UNCHANGED <<simvars, refvars, cfg, geom, hookvars, gui>>

NextCopies ==
  \E t \in 1..NumCopies :
    AllocLoad(t) \/ AllocExchange(t) \/ AllocInner(t) \/ AllocOwn(t) \/ CopyDeallocate(t)

SpecCopies == InitCopies /\ [][NextCopies]_vars

(***************************************************************************)
(* load_config.  A line is a sequence of characters; a key name counts as  *)
(* one character of the alphabet (two of them in a row spell a word that   *)
(* is no key).  The keys are dt (parse_double), max_steps (parse_size_t)   *)
(* and use_neighbor_list (parse_bool); dx, end_time, temperature, cutoff   *)
(* and neighbor_skin take the branch of dt.  The file is read lazily: each *)
(* turn of the getline loop meets the next line of the file.               *)
(***************************************************************************)
\* lines a config file holds at most
MaxLines == 2

\* characters a line holds at most
MaxLineLen == 4

Chars == {" ", "#", "=", "-", "0", "1", "dt", "max_steps", "use_neighbor_list"}

Digits == {"0", "1"}

LineSet == UNION {[1..n -> Chars] : n \in 0..MaxLineLen}

\* s.find_first_not_of(" \t\r\n") and find_last_not_of, 0 for npos
find_first_not_of(s) ==
  IF \A i \in DOMAIN s : s[i] = " " THEN 0
  ELSE CHOOSE i \in DOMAIN s : s[i] # " " /\ \A j \in 1..(i - 1) : s[j] = " "

find_last_not_of(s) ==
  IF \A i \in DOMAIN s : s[i] = " " THEN 0
  ELSE CHOOSE i \in DOMAIN s : s[i] # " " /\ \A j \in (i + 1)..Len(s) : s[j] = " "

\* trim
trim(s) ==
  IF find_first_not_of(s) = 0 THEN <<>>
  ELSE SubSeq(s, find_first_not_of(s), find_last_not_of(s))

\* line.find('='), 0 for npos
find_eq(s) ==
  IF \A i \in DOMAIN s : s[i] # "=" THEN 0
  ELSE CHOOSE i \in DOMAIN s : s[i] = "=" /\ \A j \in 1..(i - 1) : s[j] # "="

\* the decimal value of a run of digits
RECURSIVE DigitsValue(_)
DigitsValue(ds) ==
  IF ds = <<>> THEN 0
  ELSE 10 * DigitsValue(SubSeq(ds, 1, Len(ds) - 1)) + (IF ds[Len(ds)] = "1" THEN 1 ELSE 0)

\* operator>> for a number: leading whitespace is skipped, an optional sign
\* and the longest run of digits are consumed; result [ok, neg, mag, rest]
ReadNumber(value) ==
  LET a    == find_first_not_of(value)
      v    == IF a = 0 THEN <<>> ELSE SubSeq(value, a, Len(value))
      neg  == v # <<>> /\ v[1] = "-"
      body == IF neg THEN Tail(v) ELSE v
      k    == IF \A i \in DOMAIN body : body[i] \in Digits THEN Len(body)
              ELSE (CHOOSE i \in DOMAIN body :
                      body[i] \notin Digits /\ \A j \in 1..(i - 1) : body[j] \in Digits) - 1
  IN [ok |-> k > 0, neg |-> neg, mag |-> DigitsValue(SubSeq(body, 1, k)),
      rest |-> SubSeq(body, k + 1, Len(body))]

\* Variant: the check for characters after the number is left out.
parse_double_prefix(value) ==
  LET r == ReadNumber(value)
  IN IF ~r.ok \/ r.mag > RealMax THEN [ok |-> FALSE, val |-> 0]
     ELSE [ok |-> TRUE, val |-> IF r.neg THEN 0 - r.mag ELSE r.mag]

\* parse_double; result [ok, val].  A literal beyond the largest Real sets failbit.
parse_double(value) ==
  LET r == ReadNumber(value)
  IN IF ~r.ok \/ r.mag > RealMax THEN [ok |-> FALSE, val |-> 0]
     ELSE IF find_first_not_of(r.rest) # 0 THEN [ok |-> FALSE, val |-> 0]
     ELSE [ok |-> TRUE, val |-> IF r.neg THEN 0 - r.mag ELSE r.mag]

\* parse_size_t; result [ok, val].  operator>> for unsigned long negates a
\* signed literal in the unsigned type; a magnitude beyond it sets failbit.
parse_size_t(value) ==
  LET r == ReadNumber(value)
  IN IF ~r.ok \/ r.mag >= 2 ^ SizeBits THEN [ok |-> FALSE, val |-> 0]
     ELSE IF find_first_not_of(r.rest) # 0 THEN [ok |-> FALSE, val |-> 0]
     ELSE [ok |-> TRUE, val |-> IF r.neg THEN (2 ^ SizeBits - r.mag) % (2 ^ SizeBits) ELSE r.mag]

\* parse_bool; result [ok, val]
parse_bool(value) ==
  IF value \in {<<"1">>, <<"true">>, <<"yes">>} THEN [ok |-> TRUE, val |-> TRUE]
  ELSE IF value \in {<<"0">>, <<"false">>, <<"no">>} THEN [ok |-> TRUE, val |-> FALSE]
  ELSE [ok |-> FALSE, val |-> FALSE]

\* ConfigResult::failure with a message; line = 0: the message names no line
Failure(c, text, line) ==
  [c EXCEPT !.pc = "done", !.ok = FALSE, !.error = [text |-> text, line |-> line]]

\* One turn of the getline loop of load_config on the line met.
config_line(c, raw) ==
  LET n     == c.line_no + 1
      c1    == [c EXCEPT !.line_no = n]
      line  == trim(raw)
      eq    == find_eq(line)
      key   == trim(SubSeq(line, 1, eq - 1))
      value == trim(SubSeq(line, eq + 1, Len(line)))
  IN IF line = <<>> \/ line[1] = "#" THEN c1
     ELSE IF eq = 0 THEN Failure(c1, "Invalid line: missing '='", n)
     ELSE IF key = <<>> THEN Failure(c1, "Invalid line: empty key", n)
     ELSE IF key = <<"dt">>
          THEN IF ~parse_double(value).ok THEN Failure(c1, "invalid dt value", n)
               ELSE [c1 EXCEPT !.p.dt = parse_double(value).val]
     ELSE IF key = <<"max_steps">>
          THEN IF ~parse_size_t(value).ok THEN Failure(c1, "invalid max_steps value", n)
               ELSE [c1 EXCEPT !.p.max_steps = parse_size_t(value).val]
     ELSE IF key = <<"use_neighbor_list">>
          THEN IF ~parse_bool(value).ok THEN Failure(c1, "invalid use_neighbor_list value", n)
               ELSE [c1 EXCEPT !.p.use_neighbor_list = parse_bool(value).val]
     ELSE Failure(c1, "unknown key", n)

\* load_config after the loop: !f.eof(), then p.validate()
config_end(c, eof) ==
  IF ~eof THEN Failure(c, "Error reading config file", 0)
  ELSE IF SimulationParams_validate(c.p) # NoError
  THEN Failure(c, "Config validation failed: ", 0)
  ELSE [c EXCEPT !.pc = "done", !.ok = TRUE]

\* What the line met is, read off its characters: "skip" (blank or
\* comment), "malformed", "unknown_key", "bad_value" or "assignment".
RECURSIVE Strip(_)
Strip(s) ==
  IF s = <<>> THEN s
  ELSE IF Head(s) = " " THEN Strip(Tail(s))
  ELSE IF s[Len(s)] = " " THEN Strip(SubSeq(s, 1, Len(s) - 1))
  ELSE s

\* an optional sign and one or more digits, of magnitude at most limit
IsNumberLiteral(v, limit) ==
  /\ v # <<>>
  /\ LET body == IF v[1] = "-" THEN Tail(v) ELSE v
     IN body # <<>> /\ (\A i \in DOMAIN body : body[i] \in Digits) /\ DigitsValue(body) <= limit

LineClass(raw) ==
  IF Strip(raw) = <<>> \/ Strip(raw)[1] = "#" THEN "skip"
  ELSE IF \A i \in DOMAIN raw : raw[i] # "=" THEN "malformed"
  ELSE LET e == CHOOSE i \in DOMAIN raw : raw[i] = "=" /\ \A j \in 1..(i - 1) : raw[j] # "="
           k == Strip(SubSeq(raw, 1, e - 1))
           v == Strip(SubSeq(raw, e + 1, Len(raw)))
       IN IF k = <<>> THEN "malformed"
          ELSE IF k = <<"dt">>
               THEN (IF IsNumberLiteral(v, RealMax) THEN "assignment" ELSE "bad_value")
          ELSE IF k = <<"max_steps">>
               THEN (IF IsNumberLiteral(v, 2 ^ SizeBits - 1) THEN "assignment" ELSE "bad_value")
          ELSE IF k = <<"use_neighbor_list">>
               THEN (IF v \in {<<"0">>, <<"1">>} THEN "assignment" ELSE "bad_value")
          ELSE "unknown_key"

\* every Simulation and allocator variable at rest while a config is loaded
InitConfig ==
  /\ mode_ = "MD"
  /\ model_ = NoModel
  /\ params_ = DefaultParams
  /\ time_ = 0
  /\ step_count_ = 0
  /\ valid_ = TRUE
  /\ error_msg_ = NoError
  /\ system_ = <<>>
  /\ lattice_ = DefaultLattice
  /\ force_field_ = NoForceField
  /\ neighbor_force_field_ = NoNeighborForceField
  /\ last_epot_ = 0
  /\ RefIdle
  /\ pc = "idle"
  /\ ret = "none"
  /\ alloc = AllocIdle
  /\ cfg = CfgIdle
  /\ geom = GeomIdle
  /\ HooksIdle
  /\ gui = GuiIdle

\* load_config is entered: the path is empty, or the file opens or does not
ConfigBegin ==
  /\ cfg.pc \in {"idle", "done"}
  /\ \E path_empty \in BOOLEAN, is_open \in BOOLEAN :
       cfg' = IF path_empty THEN [CfgIdle EXCEPT !.pc = "done", !.ok = TRUE, !.seen = "empty_path"]
              ELSE IF ~is_open
              THEN Failure([CfgIdle EXCEPT !.path_empty = FALSE, !.seen = "unreadable"],
                           "Cannot open config file: ", 0)
              ELSE [CfgIdle EXCEPT !.pc = "reading", !.path_empty = FALSE, !.seen = "opened"]
  /\ UNCHANGED <<simvars, refvars, alloc, geom, hookvars, gui>>

\* std::getline yields a line
ConfigLine ==
  /\ cfg.pc = "reading"
  /\ cfg.line_no < MaxLines
  /\ \E raw \in LineSet : cfg' = [config_line(cfg, raw) EXCEPT !.seen = LineClass(raw)]
  /\ UNCHANGED <<simvars, refvars, alloc, geom, hookvars, gui>>

\* std::getline fails: at the end of the file, or on a read error
ConfigEnd ==
  /\ cfg.pc = "reading"
  /\ \E eof \in BOOLEAN : cfg' = [config_end(cfg, eof) EXCEPT !.seen = IF eof THEN "eof" ELSE "read_error"]
  /\ UNCHANGED <<simvars, refvars, alloc, geom, hookvars, gui>>

NextConfig == ConfigBegin \/ ConfigLine \/ ConfigEnd

SpecConfig == InitConfig /\ [][NextConfig]_vars

(***************************************************************************)
(* Lattice member calls on their own.  A Real argument of min_image_frac   *)
(* is a numerator over UnitLength; a position is in quanta, as above.      *)
(***************************************************************************)
CellSet == LatticeSet \cup {TinyCell}

\* finite fractional arguments: the small ones and one of each sign that is
\* too large for frac -= 1.0 to change it
FracSet == (0 - RealMax .. RealMax) \cup {AbsorbMin * UnitLength, 0 - AbsorbMin * UnitLength}

CartSet == (0 - 2 * MaxCoord) .. (2 * MaxCoord)

\* one evaluation of a while condition of min_image_frac on axis g.i, with
\* the loop body when the condition holds; g.turns is the parity of the
\* number of loop bodies run so far
min_image_iter(g) ==
  IF g.pc = "sub"
  THEN IF 2 * g.frac[g.i] >= UnitLength
       THEN [g EXCEPT !.frac[g.i] = frac_minus_one(g.frac[g.i], UnitLength),
                      !.turns = 1 - g.turns]
       ELSE [g EXCEPT !.pc = "add"]
  ELSE IF 2 * g.frac[g.i] < 0 - UnitLength
       THEN [g EXCEPT !.frac[g.i] = frac_plus_one(g.frac[g.i], UnitLength),
                      !.turns = 1 - g.turns]
       ELSE IF g.i < 2 THEN [g EXCEPT !.i = g.i + 1, !.pc = "sub"]
            ELSE [g EXCEPT !.pc = "done", !.out = g.frac]

InitLattice ==
  /\ mode_ = "MD"
  /\ model_ = NoModel
  /\ params_ = DefaultParams
  /\ time_ = 0
  /\ step_count_ = 0
  /\ valid_ = TRUE
  /\ error_msg_ = NoError
  /\ system_ = <<>>
  /\ lattice_ = DefaultLattice
  /\ force_field_ = NoForceField
  /\ neighbor_force_field_ = NoNeighborForceField
  /\ last_epot_ = 0
  /\ RefIdle
  /\ pc = "idle"
  /\ ret = "none"
  /\ alloc = AllocIdle
  /\ cfg = CfgIdle
  /\ geom = GeomIdle
  /\ HooksIdle
  /\ gui = GuiIdle

\* min_image_frac is entered with a finite argument
MinImageCall ==
  /\ geom.pc \in {"idle", "done"}
  /\ \E f1 \in FracSet, f2 \in FracSet :
       geom' = [GeomIdle EXCEPT !.op = "min_image_frac", !.pc = "sub", !.in = <<f1, f2>>,
                                !.frac = <<f1, f2>>]
  /\ UNCHANGED <<simvars, refvars, alloc, cfg, hookvars, gui>>

\* the loops of min_image_frac advance by one condition
MinImageIter ==
  /\ geom.pc \in {"sub", "add"}
  /\ geom' = min_image_iter(geom)
  /\ UNCHANGED <<simvars, refvars, alloc, cfg, hookvars, gui>>

\* a whole wrap_cartesian call
WrapCall ==
  /\ geom.pc \in {"idle", "done"}
  /\ \E lat \in CellSet, x \in CartSet, y \in CartSet :
       geom' = [GeomIdle EXCEPT !.op = "wrap_cartesian", !.pc = "done", !.lat = lat,
                                !.in = <<x, y>>, !.out = wrap_cartesian(lat, <<x, y>>)]
  /\ UNCHANGED <<simvars, refvars, alloc, cfg, hookvars, gui>>

NextLattice == MinImageCall \/ MinImageIter \/ WrapCall

\* the loops keep running while their conditions hold
SpecLattice == InitLattice /\ [][NextLattice]_vars /\ WF_vars(MinImageIter)

(***************************************************************************)
(* Time-keeping of the heat models at the precision of a Real.  A Real     *)
(* holds MantBits significant bits; time_ += dt is rounded to the nearest  *)
(* Real, ties to the even mantissa.  Times are counted in units of the     *)
(* spacing of the Reals below 2^MantBits, and the sums stay far from the   *)
(* largest Real.  The temperature field does not enter the time-keeping    *)
(* and is left out of the record.                                          *)
(***************************************************************************)
MantBits == 4

MaxClockSteps == 7

\* the spacing of the Reals at the magnitude of x
RECURSIVE UlpFrom(_, _)
UlpFrom(x, u) == IF x < (2 ^ MantBits) * u THEN u ELSE UlpFrom(x, 2 * u)

\* the Real nearest to the exact sum x >= 0
RoundNearest(x) ==
  LET u  == UlpFrom(x, 1)
      lo == (x \div u) * u
  IN IF x = lo THEN x
     ELSE IF 2 * (x - lo) < u THEN lo
     ELSE IF 2 * (x - lo) > u THEN lo + u
     ELSE IF (lo \div u) % 2 = 0 THEN lo ELSE lo + u

\* time_ += params_.dt
time_plus_dt(t, dt) == RoundNearest(t + dt)

\* HeatDiffusionModel::finished and HeatDiffusion2DModel::finished
clock_finished(m) ==
  IF ~m.valid_ THEN TRUE
  ELSE IF m.step_count_ >= m.params.max_steps THEN TRUE
  ELSE IF m.kind = "1D" THEN m.time_ >= m.params.end_time
  ELSE m.params.end_time > 0 /\ m.time_ >= m.params.end_time

\* HeatDiffusionModel::step and HeatDiffusion2DModel::step, the clock part;
\* result [m, ret]
clock_step(m) ==
  IF ~m.valid_ \/ clock_finished(m) THEN [m |-> m, ret |-> FALSE]
  ELSE [m |-> [m EXCEPT !.time_ = time_plus_dt(m.time_, m.params.dt),
                        !.step_count_ = m.step_count_ + 1],
        ret |-> TRUE]

\* dt and end_time are Reals: each fits MantBits bits
ClockDtSet == {1, 3, 5}
ClockEndSet == {0, 6, 12, 16, 20, 30}

InitClock ==
  /\ \E kind \in {"1D", "2D"}, dt \in ClockDtSet, end \in ClockEndSet, ms \in 1..MaxClockSteps :
       /\ mode_ = (IF kind = "1D" THEN "HeatDiffusion" ELSE "HeatDiffusion2D")
       /\ model_ = [NoModel EXCEPT !.set = TRUE, !.kind = kind, !.valid_ = TRUE,
                                   !.params = [dt |-> dt, end_time |-> end, max_steps |-> ms]]
  /\ params_ = DefaultParams
  /\ time_ = 0
  /\ step_count_ = 0
  /\ valid_ = TRUE
  /\ error_msg_ = NoError
  /\ system_ = <<>>
  /\ lattice_ = DefaultLattice
  /\ force_field_ = NoForceField
  /\ neighbor_force_field_ = NoNeighborForceField
  /\ last_epot_ = 0
  /\ RefIdle
  /\ pc = "idle"
  /\ ret = "none"
  /\ alloc = AllocIdle
  /\ cfg = CfgIdle
  /\ geom = GeomIdle
  /\ HooksIdle
  /\ gui = GuiIdle

\* a caller invokes step() on the heat model
ClockStep ==
  /\ \E r \in {clock_step(model_)} :
       /\ model_' = r.m
       /\ ret' = (IF r.ret THEN "true" ELSE "false")
  /\ UNCHANGED <<mode_, params_, time_, step_count_, valid_, error_msg_, system_, lattice_,
                 force_field_, neighbor_force_field_, last_epot_, pc, refvars, alloc, cfg,
                 geom, hookvars, gui>>

NextClock == ClockStep

SpecClock == InitClock /\ [][NextClock]_vars

(***************************************************************************)
(* An MD Simulation with its setters: a caller constructs it from valid    *)
(* parameters, installs a thermostat and a step callback, replaces the     *)
(* potential, and steps or runs it.                                        *)
(***************************************************************************)
\* nullptr, NullThermostat, a rescaling thermostat
ThermostatSet == {NoThermostat, [set |-> TRUE, lambda |-> 1], [set |-> TRUE, lambda |-> 2]}

\* nullptr, a potential with the cutoff of the parameters, one with a longer reach
MDPotentialSet == {NullPotential, MakePotential(2), MakePotential(5)}

\* valid records, and records with dt = 0, which validate() rejects
MDSetterParamSet ==
  [dt : {0, 2}, end_time : {0, 5}, max_steps : {MaxSteps}, temperature : {300}, cutoff : {2},
   use_neighbor_list : BOOLEAN, neighbor_skin : {0, 2}]

\* cells without shear: one of zero volume, the default cell, a rectangular one
MDLatticeSet == {<<<<0, 0>>, <<0, 0>>>>, DefaultLattice, <<<<3, 0>>, <<0, 2>>>>}

MDSceneSet ==
  {<<MakeParticle(<<0, 0>>, <<2, 0>>), MakeParticle(<<1, 0>>, <<0, 0>>)>>,
   <<MakeParticle(<<0, 0>>, <<0, 0>>), MakeParticle(<<MaxCoord, MaxCoord>>, <<0, 0>>)>>}

InitSetters ==
  /\ \E p \in MDSetterParamSet, pot \in MDPotentialSet, scene \in MDSceneSet,
        lat \in MDLatticeSet, th \in ThermostatSet, cb \in BOOLEAN :
       LET err == SimulationParams_validate(p)
           ffs == IF err = NoError /\ ~pot.null THEN set_potential(p, pot)
                  ELSE [ff |-> NoForceField, nff |-> NoNeighborForceField]
       IN /\ mode_ = "MD"
          /\ model_ = NoModel
          /\ params_ = p
          /\ time_ = 0
          /\ step_count_ = 0
          /\ valid_ = (err = NoError)
          /\ error_msg_ = err
          /\ system_ = scene
          /\ lattice_ = lat
          /\ force_field_ = ffs.ff
          /\ neighbor_force_field_ = ffs.nff
          /\ last_epot_ = 0
          /\ thermostat_ = th
          /\ step_callback_ = cb
  /\ callback_log = <<>>
  /\ pc = "idle"
  /\ ret = "none"
  /\ RefIdle
  /\ alloc = AllocIdle
  /\ cfg = CfgIdle
  /\ geom = GeomIdle
  /\ gui = GuiIdle

\* a caller invokes set_potential(pot); pot may be nullptr
SetPotential ==
  /\ pc # "running"
  /\ \E pot \in MDPotentialSet :
       \E ffs \in {set_potential(params_, pot)} :
         /\ force_field_' = ffs.ff
         /\ neighbor_force_field_' = ffs.nff
  /\ UNCHANGED <<mode_, model_, params_, time_, step_count_, valid_, error_msg_, system_,
                 lattice_, last_epot_, pc, ret, refvars, alloc, cfg, geom, hookvars, gui>>

NextSetters == SetPotential \/ Step \/ RunBegin \/ RunStep

SpecSetters == InitSetters /\ [][NextSetters]_vars

(***************************************************************************)
(* Properties of Simulation                                                *)
(***************************************************************************)
\* the parameter record of the active mode
P_max_steps == IF model_.set THEN model_.params.max_steps ELSE params_.max_steps
P_end_time == IF model_.set THEN model_.params.end_time ELSE params_.end_time

\* the record handed to the constructor fails validate()
InvalidParams ==
  IF ~model_.set THEN SimulationParams_validate(params_) # NoError
  ELSE IF model_.kind = "1D" THEN HeatDiffusionParams_validate(model_.params) # NoError
  ELSE HeatDiffusion2DParams_validate(model_.params) # NoError

\* the transition is a call of step() (by a caller or by run()'s loop), not run()'s entry
IsStepCall == ~(pc = "idle" /\ pc' = "running")

\* C1: in every mode and every reachable state, finished() is true iff the
\* instance is invalid, or step_count >= max_steps, or (end_time > 0 and
\* time >= end_time); an end_time of 0 never by itself finishes a simulation.
C1_FinishedIff ==
  finished <=> (~is_valid \/ step_count >= P_max_steps \/ (P_end_time > 0 /\ time >= P_end_time))

\* C2: in MD mode with end_time > 0, the first step whose advanced time is
\* within half a step of end_time sets time exactly to end_time; from then
\* on finished() is true and every further step() returns false and changes
\* neither time, step_count nor any particle; time never passes end_time.
C2_StepRule ==
  (~model_.set /\ valid_ /\ params_.end_time > 0 /\ IsStepCall) =>
     /\ (time_ < params_.end_time /\ step_count_ < params_.max_steps
           /\ 2 * (time_ + params_.dt) >= 2 * params_.end_time - params_.dt)
        => (time_' = params_.end_time /\ step_count_' = step_count_ + 1)
     /\ (time_ = params_.end_time)
        => (finished /\ ret' = "false" /\ time_' = time_ /\ step_count_' = step_count_
              /\ system_' = system_)
     /\ time_' <= params_.end_time

C2_ClampToEndTime == [][C2_StepRule]_vars

C2_Witness ==
  /\ mode_ = "MD" /\ valid_ /\ params_.end_time = 5 /\ params_.dt = 2
  /\ time_ = params_.end_time /\ step_count_ = 2 /\ ret = "false" /\ Len(system_) > 0
  /\ step_count_ < params_.max_steps

\* C3: when the record given to the constructor fails validate(), is_valid()
\* is false and error_message() is non-empty, and every step() returns
\* false and leaves time 0, step_count 0 and the particles / temperature
\* field as they were.
C3_State == InvalidParams => (~is_valid /\ error_message # NoError /\ time = 0 /\ step_count = 0)

C3_StepRule ==
  (InvalidParams /\ IsStepCall) =>
     (ret' = "false" /\ time_' = 0 /\ step_count_' = 0 /\ system_' = system_
        /\ model_'.T_ = model_.T_ /\ model_'.time_ = 0 /\ model_'.step_count_ = 0)

C3_InvalidNeverSteps == [](C3_State) /\ [][C3_StepRule]_vars

C3_Witness == InvalidParams /\ ret = "false" /\ pc = "done"

\* C4: in every reachable state, in any mode, error_message() is empty iff
\* is_valid() is true.
C4_ErrorIffInvalid == (error_message = NoError) <=> is_valid

C4_Witness ==
  /\ ~InvalidParams /\ ~is_valid /\ error_message # NoError /\ step_count > 0

\* C5: once error_message() is non-empty, no later call changes or clears it.
C5_ErrorSetOnce == [][error_message # NoError => error_message' = error_message]_vars

\* C6: over any sequence of step() calls time and step_count never decrease;
\* one call changes step_count by 0 or +1, and time changes only in a call
\* that increments step_count.
C6_StepRule ==
  IsStepCall =>
     /\ time' >= time
     /\ step_count' \in {step_count, step_count + 1}
     /\ (time' # time => step_count' = step_count + 1)

C6_Monotone == [][C6_StepRule]_vars

C6_Witness == is_valid /\ step_count >= 2 /\ time > 0 /\ ret = "true"

\* C7: run() terminates for every parameter record and mode: step() returns
\* false after at most max_steps successful steps, and when run() has
\* returned finished() is true.
C7_RunTerminates ==
  /\ [](pc = "done" => finished)
  /\ [](step_count <= P_max_steps)
  /\ ((pc = "running") ~> (pc = "done"))

C7_Witness == pc = "done" /\ is_valid /\ step_count = P_max_steps /\ step_count >= 2

\* The counters <<step_count, time>> an instance of the given mode ends with
\* when it is stepped from <<n, t>> until step() returns false, computed from
\* the parameter record alone.
RECURSIVE CountersAtEnd(_, _, _, _)
CountersAtEnd(mode, p, n, t) ==
  IF n >= p.max_steps THEN <<n, t>>
  ELSE IF mode = "HeatDiffusion" /\ t >= p.end_time THEN <<n, t>>
  ELSE IF mode # "HeatDiffusion" /\ p.end_time > 0 /\ t >= p.end_time THEN <<n, t>>
  ELSE IF ~IsFinite(RAdd(t, p.dt)) THEN <<n + 1, RAdd(t, p.dt)>>
  ELSE IF mode = "MD" /\ p.end_time > 0 /\ 2 * (t + p.dt) >= 2 * p.end_time - p.dt
       THEN <<n + 1, p.end_time>>
  ELSE CountersAtEnd(mode, p, n + 1, t + p.dt)

ExpectedCounters ==
  IF InvalidParams THEN <<0, 0>>
  ELSE CountersAtEnd(mode_, IF model_.set THEN model_.params ELSE params_, 0, 0)

\* C15: stepping is deterministic: an instance stepped until step() returns
\* false ends with a step_count() and a time() that are a function of the
\* parameter record it was constructed from, so two instances constructed
\* from identical records end with identical step_count() and time(),
\* whatever particles, lattice or potential each was given.
C15_Deterministic == (ret = "false") => (<<step_count, time>> = ExpectedCounters)

C15_Witness ==
  /\ ret = "false" /\ mode_ = "MD" /\ is_valid /\ step_count >= 2 /\ Len(system_) = 3
  /\ time < params_.end_time

(***************************************************************************)
(* Properties of load_config                                               *)
(***************************************************************************)
\* the call has failed with a message that is not empty
FailedWithMessage == cfg.pc = "done" /\ ~cfg.ok /\ cfg.error.text # ""

C16_EmptyPath ==
  (cfg.seen = "empty_path") => (cfg.pc = "done" /\ cfg.ok /\ cfg.p = DefaultParams)

\* C16 (as stated): load_config with an empty path returns ok=true with
\* default parameters; with a non-empty path, whenever the file is
\* unreadable or a line is malformed, has an unknown key or an unparsable
\* value, it returns ok=false with a non-empty, line-numbered error message.
C16_LineNumbered ==
  /\ C16_EmptyPath
  /\ (cfg.seen \in {"unreadable", "read_error", "malformed", "unknown_key", "bad_value"})
       => (FailedWithMessage /\ cfg.error.line > 0)

\* C16 (amended): as stated, except that the message carries a line number
\* (that of the offending line) only when the failure is in a line; for a
\* file that cannot be opened or read it is non-empty and names no line.
C16_NoSilentFallback ==
  /\ C16_EmptyPath
  /\ (cfg.seen \in {"malformed", "unknown_key", "bad_value"})
       => (FailedWithMessage /\ cfg.error.line = cfg.line_no /\ cfg.line_no > 0)
  /\ (cfg.seen \in {"unreadable", "read_error"}) => (FailedWithMessage /\ cfg.error.line = 0)
  /\ (cfg.ok /\ ~cfg.path_empty) => cfg.seen = "eof"

C16_Witness ==
  /\ cfg.seen = "bad_value" /\ cfg.pc = "done" /\ ~cfg.ok /\ cfg.error.line = 2
  /\ cfg.p # DefaultParams

(***************************************************************************)
(* Properties of the force evaluators                                      *)
(***************************************************************************)
\* C8: for any particle configuration and any sequence of particle moves
\* interleaved with force evaluations, with the neighbor list built for the
\* potential's cutoff, NeighborForceField::compute_forces yields the same
\* per-particle forces and the same total energy as ForceField::compute_forces.
C8_SameForces ==
  (pc = "evaluated") => (system_ = ref_system /\ last_epot_ = ref_epot)

\* how many cells away an image of a displacement is looked for
ImageRange == 2

\* the squared length of the shortest periodic image of the displacement d
ShortestImageSq(lat, d) ==
  IF lat = NoLattice THEN d[1] * d[1] + d[2] * d[2]
  ELSE LET Images == {<<d[1] - k1 * lat[1][1] - k2 * lat[2][1],
                        d[2] - k1 * lat[1][2] - k2 * lat[2][2]>> :
                        k1 \in (0 - ImageRange) .. ImageRange,
                        k2 \in (0 - ImageRange) .. ImageRange}
           Sq == {v[1] * v[1] + v[2] * v[2] : v \in Images}
       IN CHOOSE m \in Sq : \A q \in Sq : m <= q

NL == neighbor_force_field_.nlist_

Drift(i) ==
  <<system_[i].pos[1] - NL.last_positions_[i][1], system_[i].pos[2] - NL.last_positions_[i][2]>>

SystemUnchanged == NL.last_positions_ = [i \in DOMAIN system_ |-> system_[i].pos]

\* needs_rebuild is true exactly when the count differs or a displacement,
\* minimum-image under a lattice, is longer than skin/2
RebuildExact ==
  needs_rebuild(NL, system_, lattice_)
    <=> \/ Len(system_) # Len(NL.last_positions_)
        \/ \E i \in DOMAIN system_ :
             4 * ShortestImageSq(lattice_, Drift(i)) > NL.skin_ * NL.skin_

\* C19: needs_rebuild returns true exactly when the particle count differs
\* from the count at the last build or some particle's displacement from its
\* recorded position (minimum-image when a lattice is given) has squared
\* length above (skin/2)^2; right after build() on an unchanged system it
\* returns false.
C19_RebuildExact ==
  /\ RebuildExact
  /\ SystemUnchanged => ~needs_rebuild(NL, system_, lattice_)

\* the same where cartesian_to_fractional inverts the cell
RebuildExactAboveEps ==
  (lattice_ = NoLattice \/ Abs(Volume(lattice_)) >= VolEps) => C19_RebuildExact

(***************************************************************************)
(* Properties of bounded_allocator                                         *)
(***************************************************************************)
IsAllocateCall == alloc'.last \in {"nullptr", "bad_alloc", "returned", "inner_throw"}

\* C9: the tracked usage never exceeds max_bytes, and an allocate(n) whose
\* n * sizeof(T) bytes would take the usage above the ceiling throws
\* std::bad_alloc instead of returning memory, also when the byte count or
\* the sum wraps around the size type.
C9_AllocRule ==
  (IsAllocateCall /\ alloc.current_bytes + alloc'.req * SizeofT > alloc.max_bytes)
     => alloc'.last \in {"bad_alloc", "inner_throw"}

C9_CeilingHolds == [](alloc.current_bytes <= alloc.max_bytes) /\ [][C9_AllocRule]_vars

\* C10: the tracked usage equals the bytes handed out and not yet
\* deallocated, and an allocate that throws leaves the usage unchanged.
C10_ThrowRule ==
  (IsAllocateCall /\ alloc'.last \in {"bad_alloc", "inner_throw"})
     => alloc'.current_bytes = alloc.current_bytes

C10_UsageExact ==
  [](alloc.current_bytes = LiveBytes(alloc.blocks)) /\ [][C10_ThrowRule]_vars

\* the Simulation was just constructed: no call has acted on it
JustConstructed == pc = "idle" /\ ret = "none"

\* the fields of the MD record satisfy the rules the claim names
MDFieldsInRange ==
  /\ IsFinite(params_.dt) /\ params_.dt > 0
  /\ IsFinite(params_.end_time) /\ params_.end_time >= 0
  /\ params_.max_steps > 0
  /\ params_.temperature >= 0 /\ params_.cutoff > 0 /\ params_.neighbor_skin >= 0

\* C17 (as stated): SimulationParams::validate() returns an error exactly
\* when dt is not positive and finite, end_time is negative or non-finite,
\* max_steps is 0, or temperature < 0, cutoff <= 0 or neighbor_skin < 0;
\* every record with dt > 0, end_time >= 0, max_steps > 0 and in-range
\* physics fields is accepted.
C17_ValidateExact ==
  (mode_ = "MD" /\ ~model_.set /\ JustConstructed) => (is_valid <=> MDFieldsInRange)

\* C17 (amended): validate() returns an error exactly when one of those
\* rules is violated, or temperature, cutoff or neighbor_skin is not finite,
\* or end_time > 0 and dt > end_time.
C17_ValidateRules ==
  (mode_ = "MD" /\ ~model_.set /\ JustConstructed) =>
     /\ is_valid <=>
          /\ MDFieldsInRange
          /\ IsFinite(params_.temperature) /\ IsFinite(params_.cutoff)
          /\ IsFinite(params_.neighbor_skin)
          /\ ~(params_.end_time > 0 /\ params_.dt > params_.end_time)
     /\ ~is_valid => error_message # NoError

C17_Witness ==
  /\ mode_ = "MD" /\ ~model_.set /\ JustConstructed /\ MDFieldsInRange /\ ~is_valid
  /\ params_.end_time > 0 /\ params_.dt > params_.end_time /\ IsFinite(params_.cutoff)

(***************************************************************************)
(* Properties of the heat models                                           *)
(***************************************************************************)
\* the stability factor of the active heat model: 2 in 1D, 4 in 2D
StabilityFactor == IF model_.kind = "1D" THEN 2 ELSE 4

\* every field of the record other than the stability test satisfies its rule
HeatFieldsInRange ==
  LET p == model_.params
  IN /\ IsFinite(p.alpha) /\ p.alpha > 0
     /\ IsFinite(p.dx) /\ p.dx > 0
     /\ IsFinite(p.dt) /\ p.dt > 0
     /\ IsFinite(p.end_time) /\ p.end_time >= 0
     /\ p.max_steps > 0
     /\ IF model_.kind = "1D" THEN p.n_cells >= 2
        ELSE /\ p.nx >= 3 /\ p.ny >= 3
             /\ IsFinite(p.T_boundary) /\ p.T_boundary >= 0
             /\ IsFinite(p.T_hot) /\ p.T_hot > p.T_boundary
             /\ (p.ic = "HotCenter" => (IsFinite(p.hot_radius_frac) /\ p.hot_radius_frac > 0))

\* dt <= dx^2 / (factor * alpha), for alpha > 0
DtWithinLimit ==
  StabilityFactor * model_.params.alpha * model_.params.dt
     <= model_.params.dx * model_.params.dx

\* C12 (as stated): validate() fails whenever dt > dx^2/(2*alpha) (1D) or
\* dt > dx^2/(4*alpha) (2D), and succeeds when dt is at or below that limit
\* and every other field satisfies its rule; hence every heat model with
\* is_valid() true has dt <= stability_limit().
C12_StabilityExact ==
  model_.set =>
    /\ (JustConstructed /\ HeatFieldsInRange /\ ~DtWithinLimit) => ~is_valid
    /\ (JustConstructed /\ HeatFieldsInRange /\ DtWithinLimit) => is_valid
    /\ is_valid => DtWithinLimit

\* C12 (amended): as stated, except that validate() succeeds only when the
\* limit dx^2/(factor*alpha) is itself a finite Real.
C12_StabilityFinite ==
  model_.set =>
    /\ (JustConstructed /\ HeatFieldsInRange /\ ~DtWithinLimit) => ~is_valid
    /\ (JustConstructed /\ HeatFieldsInRange /\ DtWithinLimit
          /\ model_.params.dx * model_.params.dx <= RealMax) => is_valid
    /\ (JustConstructed /\ HeatFieldsInRange /\ model_.params.dx * model_.params.dx > RealMax)
          => (~is_valid /\ error_message # NoError)
    /\ is_valid => DtWithinLimit

C12_Witness ==
  /\ model_.set /\ model_.kind = "2D" /\ is_valid /\ step_count > 0
  /\ 4 * model_.params.alpha * model_.params.dt <= model_.params.dx * model_.params.dx
  /\ 4 * model_.params.alpha * (model_.params.dt + 1) > model_.params.dx * model_.params.dx

\* the least and the greatest temperature of the initial field
FieldMin == IF model_.kind = "1D" THEN 0 ELSE model_.params.T_boundary
FieldMax == IF model_.kind = "1D" THEN InteriorT ELSE model_.params.T_hot

\* C13: for a heat model built from validated parameters, after any number
\* of steps every cell temperature lies between the minimum and the maximum
\* of the initial field (2D: within [T_boundary, T_hot]; 1D: within
\* [0, 300]), so every value is finite and non-negative.
C13_FieldBounded ==
  (model_.set /\ ~InvalidParams) =>
     \A k \in DOMAIN model_.T_ :
        /\ model_.T_[k] # NaN /\ IsFinite(model_.T_[k])
        /\ model_.T_[k] >= FieldMin /\ model_.T_[k] <= FieldMax /\ model_.T_[k] >= 0

\* the cells of the first and last row and column (2D), the two end cells (1D)
BoundaryCells ==
  IF model_.kind = "1D" THEN {k \in DOMAIN model_.T_ : k = 1 \/ k = model_.n_}
  ELSE {k \in DOMAIN model_.T_ :
          \/ (k - 1) % model_.nx_ = 0 \/ (k - 1) % model_.nx_ = model_.nx_ - 1
          \/ (k - 1) \div model_.nx_ = 0 \/ (k - 1) \div model_.nx_ = model_.ny_ - 1}

C14_State ==
  (model_.set /\ model_.valid_) =>
     \A k \in BoundaryCells :
        model_.T_[k] = (IF model_.kind = "1D" THEN 0 ELSE model_.params.T_boundary)

C14_StepRule ==
  (model_.set /\ model_.valid_ /\ IsStepCall) =>
     \A k \in BoundaryCells : model_'.T_[k] = model_.T_[k]

\* C14: boundaries are never evolved: in every reachable state of a valid 2D
\* heat model every cell of the first and last row and column equals
\* T_boundary, in a valid 1D heat model the two end cells keep their initial
\* value through every step; step() changes interior cells only.
C14_BoundariesFixed == [](C14_State) /\ [][C14_StepRule]_vars

C14_Witness ==
  /\ model_.set /\ model_.kind = "2D" /\ model_.valid_ /\ step_count >= 2
  /\ \E k \in DOMAIN model_.T_ \ BoundaryCells :
        model_.T_[k] # model_.T_next_[k] /\ model_.T_[k] # model_.params.T_boundary
  /\ \A k \in BoundaryCells : model_.T_[k] = model_.params.T_boundary

\* C11: copies of a bounded_allocator share one usage counter and one
\* ceiling: the bytes outstanding over all copies never exceed max_bytes,
\* also when the copies allocate concurrently.
C11_SharedBudget ==
  OutstandingBytes(alloc.state, Len(alloc.state)) <= alloc.state[1].max_bytes


(***************************************************************************)
(* Properties of Lattice                                                   *)
(***************************************************************************)
InMinImage == geom.op = "min_image_frac" /\ geom.pc \in {"sub", "add"}

MinImageDone == geom.op = "min_image_frac" /\ geom.pc = "done"

\* C18, the parts about the result: when min_image_frac returns, every
\* component lies in [-0.5, 0.5) and differs from its argument by an integer
MinImageResultRight ==
  MinImageDone =>
    \A d \in 1..2 : /\ 0 - UnitLength <= 2 * geom.out[d]
                     /\ 2 * geom.out[d] < UnitLength
                     /\ (geom.out[d] - geom.in[d]) % UnitLength = 0

\* C18: for every finite fractional argument min_image_frac terminates,
\* leaving each component in [-0.5, 0.5) and an integer away from its argument
C18_MinImageTerminates == InMinImage ~> (MinImageDone /\ MinImageResultRight)

\* the fractional coordinates of a position, as numerators over |volume|
ExactFrac(lat, cart) ==
  IF Volume(lat) > 0
  THEN <<lat[2][2] * cart[1] - lat[2][1] * cart[2], lat[1][1] * cart[2] - lat[1][2] * cart[1]>>
  ELSE <<lat[2][1] * cart[2] - lat[2][2] * cart[1], lat[1][2] * cart[1] - lat[1][1] * cart[2]>>

\* to - from is an integer combination of the basis vectors
PeriodicImage(lat, from, to) ==
  \A d \in 1..2 :
    ExactFrac(lat, <<to[1] - from[1], to[2] - from[2]>>)[d] % Abs(Volume(lat)) = 0

InUnitCell(lat, cart) ==
  \A d \in 1..2 : ExactFrac(lat, cart)[d] \in 0 .. (Abs(Volume(lat)) - 1)

\* C20: for every lattice with has_lattice() true (volume != 0), of any
\* scale, wrap_cartesian returns a periodic image of its argument whose
\* fractional coordinates lie in [0, 1)
C20_WrapIsImage ==
  (geom.op = "wrap_cartesian" /\ Volume(geom.lat) # 0)
    => (PeriodicImage(geom.lat, geom.in, geom.out) /\ InUnitCell(geom.lat, geom.out))

\* the same for the cells whose volume reaches epsilon
WrapIsImageAboveEps ==
  (geom.op = "wrap_cartesian" /\ Abs(Volume(geom.lat)) >= VolEps)
    => (PeriodicImage(geom.lat, geom.in, geom.out) /\ InUnitCell(geom.lat, geom.out))

\* min_image_frac returns for the arguments on which frac -= 1.0 is exact
MinImageSmallTerminates ==
  (InMinImage /\ \A d \in 1..2 : Abs(geom.in[d]) < AbsorbMin * UnitLength) ~> MinImageDone

(***************************************************************************)
(* Properties of the MD step                                               *)
(***************************************************************************)
\* an MD step() call that ran its phases
MDStepRan == ~model_.set /\ step_count_' = step_count_ + 1

\* the configured evaluator applied to sys with the lattice pointer lat
EvaluateWith(sys, lat) ==
  IF neighbor_force_field_.set
  THEN NeighborForceField_compute_forces(neighbor_force_field_, sys, lat).sys
  ELSE IF force_field_.set
  THEN ForceField_compute_forces(force_field_.potential_, sys, lat).sys
  ELSE clear_forces(sys)

\* the particles after a step that neither wraps nor uses a lattice
NonPeriodicStep ==
  step2(EvaluateWith(step1(system_, params_.dt), NoLattice), params_.dt)

\* the lattice_ member is as constructed: set_lattice() was not called
LatticeNeverSet == lattice_ = DefaultLattice

\* C21: an MD Simulation on which set_lattice() was never called is
\* non-periodic: step() does not wrap positions and the evaluator gets a
\* null lattice.
C21_DefaultNonPeriodic ==
  [][(MDStepRan /\ LatticeNeverSet) => system_' = NonPeriodicStep]_vars

\* with a cell of zero volume the step is the non-periodic one
ZeroVolumeNonPeriodic ==
  [][(MDStepRan /\ Volume(lattice_) = 0) => system_' = NonPeriodicStep]_vars

\* run() has just called initialize() on a system that holds particles
InitializeRan == ~model_.set /\ pc = "idle" /\ pc' = "running" /\ Len(system_) > 0

\* the lattice pointer compute_forces() hands to the evaluator
LatticeArg == IF has_lattice THEN lattice_ ELSE NoLattice

\* the pair contributions of one evaluation of sys by the evaluator ff / nff,
\* added up from zero
PairSum(ff, nff, sys) ==
  IF nff.set /\ ~nff.potential_.null
  THEN AccumulatePairs(sys, LatticeArg, nff.potential_,
                       ListedPairs(nff.nlist_, Len(sys), 1, 1)).sys
  ELSE IF ~nff.set /\ ff.set /\ ~ff.potential_.null
  THEN AccumulatePairs(sys, LatticeArg, ff.potential_, AllPairs(Len(sys))).sys
  ELSE clear_forces(sys)

ForcesOf(sys) == [i \in DOMAIN sys |-> sys[i].force]

\* the forces in the next state are the pair sum of the evaluation just made
ForcesFresh ==
  ForcesOf(system_') = ForcesOf(PairSum(force_field_', neighbor_force_field_', system_'))

\* C22: after initialize() and at the end of every MD step each particle's
\* force is the sum of the pair contributions of that step's one force
\* evaluation, nothing carried over, whichever evaluator is configured and
\* also when it holds a null potential.
C22_ForcesTransient == [][(MDStepRan \/ InitializeRan) => ForcesFresh]_vars

\* the same while no evaluator holds a null potential
ForcesTransientWithPotential ==
  [][((MDStepRan \/ InitializeRan)
        /\ ~(force_field_.set /\ force_field_.potential_.null)
        /\ ~(neighbor_force_field_.set /\ neighbor_force_field_.potential_.null))
      => ForcesFresh]_vars

\* the phases of a step in the order of the claim: first half-step, wrap,
\* one force evaluation, second half-step, thermostat
PhasesInOrder ==
  LET afterHalf == step1(system_, params_.dt)
      afterWrap == IF Volume(lattice_) # 0 THEN apply_pbc(afterHalf, lattice_) ELSE afterHalf
      afterEval == EvaluateWith(afterWrap, LatticeArg)
      afterSecond == step2(afterEval, params_.dt)
  IN IF thermostat_.set THEN Thermostat_apply(thermostat_, afterSecond, params_.dt)
     ELSE afterSecond

\* a step() call on an invalid or finished MD instance; SetPotential is
\* no step() call but writes none of the fields below either
RejectedCall == ~model_.set /\ (~valid_ \/ finished) /\ ~(pc = "idle" /\ pc' = "running")

C23_Step ==
  /\ MDStepRan => /\ system_' = PhasesInOrder
                  /\ time_' \in {RAdd(time_, params_.dt), params_.end_time}
  /\ RejectedCall => UNCHANGED <<system_, time_, step_count_, last_epot_, callback_log>>

\* C23: a successful MD step runs first half-step, wrap, one force
\* evaluation, second half-step, thermostat (if set), then time += dt and
\* step_count += 1, each once and in this order; a step() rejected because
\* the instance is invalid or finished runs none of them.
C23_PhaseOrder == [][C23_Step]_vars

\* a step has run with a cell, a rescaling thermostat and a non-zero force
C23_Witness ==
  /\ step_count_ > 0 /\ thermostat_.set /\ thermostat_.lambda > 1 /\ Volume(lattice_) # 0
  /\ \E i \in DOMAIN system_ : system_[i].force # <<0, 0>> /\ system_[i].vel # <<0, 0>>

\* the neighbor-list evaluator with a potential has just evaluated a step
ListedStepRan ==
  MDStepRan /\ neighbor_force_field_.set /\ ~neighbor_force_field_.potential_.null

\* the forces every pair closer than the potential's cutoff adds up to
AllInteracting ==
  ForcesOf(AccumulatePairs(system_', LatticeArg, neighbor_force_field_.potential_,
                           AllPairs(Len(system_'))).sys)

\* C24: with the neighbor list in use, whatever the potential's cutoff is
\* relative to params.cutoff and params.neighbor_skin, every pair closer
\* than the potential's cutoff contributes to the forces at every step.
C24_NoPairLeftOut == [][ListedStepRan => ForcesOf(system_') = AllInteracting]_vars

\* the same for a potential whose cutoff does not exceed params.cutoff
NoPairLeftOutWithinCutoff ==
  [][(ListedStepRan /\ neighbor_force_field_.potential_.cutoff <= params_.cutoff)
       => ForcesOf(system_') = AllInteracting]_vars

\* C25: step_count() <= max_steps in every reachable state of a Simulation
\* in any mode, and no step is executed once step_count has reached
\* max_steps, whatever end_time is.
C25_StepCountCapped ==
  /\ [](step_count <= P_max_steps)
  /\ [][(step_count' # step_count) => (step_count < P_max_steps /\ step_count' = step_count + 1)]_vars

\* a 2D heat run without end_time stands at the cap and a further step()
\* was refused
C25_Witness ==
  /\ mode_ = "HeatDiffusion2D" /\ P_end_time = 0 /\ P_max_steps > 1
  /\ step_count = P_max_steps /\ ret = "false"

(***************************************************************************)
(* Properties of the step callback                                         *)
(***************************************************************************)
C26_Step ==
  /\ IF MDStepRan /\ ret' = "true" /\ step_callback_
     THEN callback_log' = Append(callback_log, <<RAdd(time_, params_.dt), step_count_ + 1>>)
     ELSE UNCHANGED callback_log
  /\ (MDStepRan /\ params_.end_time > 0 /\ time_' >= params_.end_time)
       => (ret' = "false" /\ system_' = PhasesInOrder)

\* C26: in MD mode the step callback is invoked exactly once in each step()
\* call that returns true, after time and step_count were updated, and never
\* in a call that returns false; the call that reaches end_time advances
\* particles, time and step_count, returns false and invokes no callback.
C26_CallbackOnTrue == [][C26_Step]_vars

\* a run with a callback has ended at end_time: the last call advanced the
\* step count without a callback invocation
C26_Witness ==
  /\ step_callback_ /\ Len(callback_log) > 0 /\ step_count_ = Len(callback_log) + 1
  /\ params_.end_time > 0 /\ time_ = params_.end_time /\ ret = "false"

(***************************************************************************)
(* The run controller of the GUI (MainWindow).  Its slots run on the GUI   *)
(* thread, one at a time and to completion.  A Simulation object is held   *)
(* as its identity (id), its mode and the number of step() calls that      *)
(* still return true (left); the argument of a slot that decides its path  *)
(* is an input: the example selected, whether the parameters validate,     *)
(* how long the new Simulation lives, and how many steps a timer batch     *)
(* takes before its budget expires.                                        *)
(***************************************************************************)
MaxGuiRuns == 3

MaxLife == 3

MaxBatch == 2

ExampleSet == {"heat_hot_center", "argon_crystal"}

\* std::make_unique<matsimu::Simulation>(...) in on_run
NewSimulation(g, mode, life) ==
  [set |-> TRUE, id |-> g.made + 1, mode |-> mode, left |-> life]

\* MainWindow::finish_simulation: the Simulation is kept
finish_simulation(g) ==
  IF ~g.simulation.set
  THEN [g EXCEPT !.timer = FALSE, !.running = FALSE]
  ELSE [g EXCEPT !.timer = FALSE, !.running = FALSE, !.status = "Finished"]

\* the do-while loop of on_simulation_timer: n steps fit the budget;
\* result [g, finished]
RECURSIVE batch_loop(_, _)
batch_loop(g, n) ==
  IF g.simulation.left = 0
  THEN [g |-> finish_simulation(g), finished |-> TRUE]
  ELSE LET h == [g EXCEPT !.simulation.left = g.simulation.left - 1]
       IN IF n <= 1 THEN [g |-> h, finished |-> FALSE] ELSE batch_loop(h, n - 1)

\* MainWindow::on_simulation_timer
on_simulation_timer(g, n) ==
  IF ~g.simulation.set THEN finish_simulation(g)
  ELSE batch_loop(g, n).g

\* Variant: Run is not refused while a run is active.
on_run_unguarded(g, example, ok, life) ==
  IF example = "heat_hot_center"
  THEN IF ~ok
       THEN [g EXCEPT !.simulation = NoSimulation, !.made = g.made + 1, !.status = "Error"]
       ELSE [g EXCEPT !.simulation = NewSimulation(g, "HeatDiffusion2D", life),
                      !.made = g.made + 1, !.running = TRUE, !.status = "Running",
                      !.timer = TRUE]
  ELSE IF ~ok
       THEN [g EXCEPT !.status = "Invalid"]
       ELSE [g EXCEPT !.simulation = NewSimulation(g, "MD", life),
                      !.made = g.made + 1, !.running = TRUE, !.status = "Running",
                      !.timer = TRUE]

\* MainWindow::on_run.  ok: the heat Simulation is valid, or the MD
\* parameters validate (the MD constructor applies the same validation).
on_run(g, example, ok, life) ==
  IF g.simulation.set /\ g.timer
  THEN [g EXCEPT !.status = "AlreadyRunning"]
  ELSE IF example = "heat_hot_center"
  THEN IF ~ok
       THEN [g EXCEPT !.simulation = NoSimulation, !.made = g.made + 1, !.status = "Error"]
       ELSE [g EXCEPT !.simulation = NewSimulation(g, "HeatDiffusion2D", life),
                      !.made = g.made + 1, !.running = TRUE, !.status = "Running",
                      !.timer = TRUE]
  ELSE IF ~ok
       THEN [g EXCEPT !.status = "Invalid"]
       ELSE [g EXCEPT !.simulation = NewSimulation(g, "MD", life),
                      !.made = g.made + 1, !.running = TRUE, !.status = "Running",
                      !.timer = TRUE]

\* MainWindow::on_stop
on_stop(g) ==
  LET was_active == g.simulation.set /\ g.timer
  IN [g EXCEPT !.timer = FALSE, !.simulation = NoSimulation, !.running = FALSE,
               !.status = IF was_active THEN "Stopped" ELSE g.status]

\* MainWindow::on_reset
on_reset(g) == [on_stop(g) EXCEPT !.status = "Reset"]

\* MainWindow::on_run_example with a non-empty example id
on_run_example(g, example, ok, life) == on_run(on_stop(g), example, ok, life)

InitGui ==
  /\ mode_ = "MD"
  /\ model_ = NoModel
  /\ params_ = DefaultParams
  /\ time_ = 0
  /\ step_count_ = 0
  /\ valid_ = TRUE
  /\ error_msg_ = NoError
  /\ system_ = <<>>
  /\ lattice_ = DefaultLattice
  /\ force_field_ = NoForceField
  /\ neighbor_force_field_ = NoNeighborForceField
  /\ last_epot_ = 0
  /\ RefIdle
  /\ pc = "idle"
  /\ ret = "none"
  /\ alloc = AllocIdle
  /\ cfg = CfgIdle
  /\ geom = GeomIdle
  /\ HooksIdle
  /\ gui = GuiIdle

GuiRest == <<simvars, refvars, alloc, cfg, geom, hookvars>>

\* the user presses Run
RunRequested ==
  /\ gui.made < MaxGuiRuns
  /\ \E example \in ExampleSet, ok \in BOOLEAN, life \in 0..MaxLife :
       gui' = [on_run(gui, example, ok, life) EXCEPT !.last = "run"]
  /\ UNCHANGED GuiRest

\* the user runs an example from the list
ExampleRequested ==
  /\ gui.made < MaxGuiRuns
  /\ \E example \in ExampleSet, ok \in BOOLEAN, life \in 0..MaxLife :
       gui' = [on_run_example(gui, example, ok, life) EXCEPT !.last = "run_example"]
  /\ UNCHANGED GuiRest

\* the step timer fires; it fires only while it is active
TimerTick ==
  /\ gui.timer
  /\ \E n \in 1..MaxBatch :
       gui' = [on_simulation_timer(gui, n) EXCEPT !.last = "timer"]
  /\ UNCHANGED GuiRest

\* the user presses Stop
StopRequested ==
  /\ gui' = [on_stop(gui) EXCEPT !.last = "stop"]
  /\ UNCHANGED GuiRest

\* the user presses Reset
ResetRequested ==
  /\ gui' = [on_reset(gui) EXCEPT !.last = "reset"]
  /\ UNCHANGED GuiRest

NextGui ==
  \/ RunRequested
  \/ ExampleRequested
  \/ TimerTick
  \/ StopRequested
  \/ ResetRequested

SpecGui == InitGui /\ [][NextGui]_vars

(***************************************************************************)
(* A NeighborForceField over a particle system that grows and shrinks: the *)
(* caller adds particles, moves them, clears the system, clears the list   *)
(* through neighbor_list(), and asks for forces or for the energy.  pc is  *)
(* "placed" before the first evaluation, "evaluated" after one, "grown"    *)
(* when a particle was added after an evaluation, "changed" after another  *)
(* change, and "reevaluated" after the evaluation that follows an addition.*)
(***************************************************************************)
MaxParticles == 3

GrowPositionSet == {<<0, 0>>, <<2, 0>>}

InitGrow ==
  /\ \E skin \in NLSkinSet, pot \in {NullPotential, MakePotential(2)} :
       /\ params_ = [DefaultParams EXCEPT !.cutoff = 2, !.neighbor_skin = skin]
       /\ neighbor_force_field_ = MakeNeighborForceField(pot, 2, skin)
  /\ mode_ = "MD"
  /\ model_ = NoModel
  /\ time_ = 0
  /\ step_count_ = 0
  /\ valid_ = TRUE
  /\ error_msg_ = NoError
  /\ system_ = <<>>
  /\ lattice_ = DefaultLattice
  /\ force_field_ = NoForceField
  /\ last_epot_ = 0
  /\ RefIdle
  /\ pc = "placed"
  /\ ret = "none"
  /\ alloc = AllocIdle
  /\ cfg = CfgIdle
  /\ geom = GeomIdle
  /\ HooksIdle
  /\ gui = GuiIdle

AfterChange == IF pc = "placed" THEN "placed" ELSE "changed"

AfterEvaluation == IF pc = "grown" THEN "reevaluated" ELSE "evaluated"

GrowRest == <<mode_, model_, params_, time_, step_count_, valid_, error_msg_, lattice_,
              force_field_, ret, refvars, alloc, cfg, geom, hookvars, gui>>

\* ParticleSystem::add_particle
AddParticle ==
  /\ Len(system_) < MaxParticles
  /\ \E pos \in GrowPositionSet : system_' = Append(system_, MakeParticle(pos, <<0, 0>>))
  /\ pc' = (IF pc = "placed" THEN "placed" ELSE "grown")
  /\ UNCHANGED <<neighbor_force_field_, last_epot_, GrowRest>>

\* ParticleSystem::clear
ClearSystem ==
  /\ system_' = <<>>
  /\ pc' = AfterChange
  /\ UNCHANGED <<neighbor_force_field_, last_epot_, GrowRest>>

\* the caller moves the first particle by one quantum along x
NudgeParticle ==
  /\ Len(system_) > 0
  /\ system_[1].pos[1] < MaxCoord
  /\ system_' = [system_ EXCEPT ![1].pos = <<system_[1].pos[1] + 1, system_[1].pos[2]>>]
  /\ pc' = AfterChange
  /\ UNCHANGED <<neighbor_force_field_, last_epot_, GrowRest>>

\* neighbor_list().clear()
ClearList ==
  /\ neighbor_force_field_' =
       [neighbor_force_field_ EXCEPT !.nlist_ = NeighborList_clear(neighbor_force_field_.nlist_)]
  /\ pc' = AfterChange
  /\ UNCHANGED <<system_, last_epot_, GrowRest>>

\* compute_forces(system), the lattice pointer defaulted to null
GrowForces ==
  /\ \E r \in {NeighborForceField_compute_forces(neighbor_force_field_, system_, NoLattice)} :
       /\ system_' = r.sys
       /\ neighbor_force_field_' = r.nff
       /\ last_epot_' = r.epot
  /\ pc' = AfterEvaluation
  /\ UNCHANGED GrowRest

\* compute_energy(system), the lattice pointer defaulted to null
GrowEnergy ==
  /\ \E r \in {NeighborForceField_compute_energy(neighbor_force_field_, system_, NoLattice)} :
       /\ neighbor_force_field_' = r.nff
       /\ last_epot_' = r.epot
  /\ pc' = AfterEvaluation
  /\ UNCHANGED <<system_, GrowRest>>

NextGrow ==
  \/ AddParticle
  \/ ClearSystem
  \/ NudgeParticle
  \/ ClearList
  \/ GrowForces
  \/ GrowEnergy

SpecGrow == InitGrow /\ [][NextGrow]_vars

(***************************************************************************)
(* Properties of the heat models' time-keeping                             *)
(***************************************************************************)
\* dt accumulated k times
RECURSIVE Accumulated(_, _)
Accumulated(dt, k) == IF k = 0 THEN 0 ELSE RoundNearest(Accumulated(dt, k - 1) + dt)

\* the smallest k with k * dt >= end
RECURSIVE SmallestK(_, _, _)
SmallestK(dt, end, k) == IF k * dt >= end THEN k ELSE SmallestK(dt, end, k + 1)

\* the run has stopped because time() reached end_time
EndedByEndTime ==
  /\ model_.params.end_time > 0
  /\ model_.time_ >= model_.params.end_time

\* the time is accumulated, never clamped, and the last step was not refused
ClockNoClamp ==
  /\ model_.time_ = Accumulated(model_.params.dt, model_.step_count_)
  /\ EndedByEndTime =>
       /\ model_.time_ < model_.params.end_time + model_.params.dt
       /\ model_.step_count_ > 0

\* C27: a valid heat model never clamps time: after k successful steps
\* time() is dt accumulated k times, the step that reaches or passes
\* end_time returns true, and a run ended by end_time stops with
\* end_time <= time() < end_time + dt and step_count equal to the smallest
\* k with k * dt >= end_time.
C27_HeatClock ==
  /\ ClockNoClamp
  /\ EndedByEndTime =>
       model_.step_count_ = SmallestK(model_.params.dt, model_.params.end_time, 0)

(***************************************************************************)
(* Properties of Simulation::potential                                     *)
(***************************************************************************)
\* this step is the call set_potential(pot)
SetPotentialRan(pot) ==
  /\ mode_ = "MD"
  /\ pc # "running"
  /\ [ff |-> force_field_', nff |-> neighbor_force_field_'] = set_potential(params_, pot)
  /\ UNCHANGED <<params_, time_, step_count_, system_, pc, ret>>

\* the potential held by the evaluator that set_potential or the constructor installed
InstalledPotential ==
  IF neighbor_force_field_.set THEN neighbor_force_field_.potential_
  ELSE force_field_.potential_

\* potential() returns the potential that was set
PotentialReturned ==
  /\ [](((force_field_.set \/ neighbor_force_field_.set) /\ step_count_ = 0 /\ pc = "idle")
          => potential = InstalledPotential)
  /\ [][\A pot \in MDPotentialSet : SetPotentialRan(pot) => potential' = pot]_vars

\* C28: after set_potential(p) on an MD Simulation, or construction with
\* potential p, potential() returns p, whether use_neighbor_list is enabled
\* or not.
C28_PotentialGetter == PotentialReturned

\* The same without a neighbor list.
PotentialGetterNoList ==
  /\ []((~params_.use_neighbor_list /\ force_field_.set) => potential = InstalledPotential)
  /\ [][\A pot \in MDPotentialSet :
          (SetPotentialRan(pot) /\ ~params_.use_neighbor_list) => potential' = pot]_vars

(***************************************************************************)
(* Properties of the GUI run controller                                    *)
(***************************************************************************)
\* this step is the slot on_run, entered while the step timer is active
RunWhileActive == gui.timer /\ gui'.last = "run" /\ gui' # gui

\* a refused Run leaves the Simulation object and the timer as they are
RunRefused ==
  /\ gui'.simulation = gui.simulation
  /\ gui'.timer = gui.timer
  /\ gui'.made = gui.made

\* C29: in the GUI run controller at most one run is active at any time: a
\* Run request arriving while the step timer is active leaves the current
\* Simulation object and the timer untouched, the timer is active only while
\* a Simulation object exists, and after Stop or Reset the timer is inactive
\* and no Simulation is retained.
C29_OneRun ==
  /\ [][RunWhileActive => RunRefused]_vars
  /\ [](gui.timer => gui.simulation.set)
  /\ [](gui.last \in {"stop", "reset"} => (~gui.timer /\ ~gui.simulation.set))

\* a Run was refused while a run that has already advanced is active
C29_Witness ==
  /\ gui.last = "run"
  /\ gui.status = "AlreadyRunning"
  /\ gui.timer
  /\ gui.simulation.set
  /\ gui.simulation.left < MaxLife

(***************************************************************************)
(* Properties of the neighbor list under a changing particle system        *)
(***************************************************************************)
\* one entry list per particle, every listed index valid and above its owner
WellFormedList(nl, sys) ==
  /\ Len(nl.neighbors_) = Len(sys)
  /\ \A i \in DOMAIN nl.neighbors_ :
       \A m \in DOMAIN nl.neighbors_[i] :
         nl.neighbors_[i][m] > i /\ nl.neighbors_[i][m] <= Len(sys)

\* C30: whenever NeighborForceField evaluates forces or energy, the neighbor
\* list holds exactly one entry list per particle of the current system and
\* every listed index is a valid particle index greater than its owner's
\* index, also when particles were added or the system was cleared between
\* calls.
C30_ListWellFormed ==
  pc \in {"evaluated", "reevaluated"} => WellFormedList(neighbor_force_field_.nlist_, system_)

\* an evaluation after a particle was added to an evaluated system, over
\* more than two particles of which the first has a neighbor
C30_Witness ==
  /\ pc = "reevaluated"
  /\ Len(system_) > 2
  /\ neighbor_force_field_.nlist_.neighbors_[1] # <<>>

\* between evaluations the list may lag behind the system
ListLags == pc \in {"changed", "grown"} /\ Len(neighbor_force_field_.nlist_.neighbors_) # Len(system_)

====
